---- MODULE Spec2Model ----
(***************************************************************************)
(* Verification model of the tmuxai agent orchestration engine:            *)
(*   - aiFollowedGuidelines        (internal/process_message.go)           *)
(*   - ProcessUserMessage          (internal/process_message.go)           *)
(*   - startWatchMode              (internal/process_message.go)           *)
(*   - processInput                (internal/chat.go)                      *)
(*   - needSquash / squashHistory  (internal/squash.go)                    *)
(***************************************************************************)
EXTENDS Integers, Sequences, FiniteSets, TLC

(***************************************************************************)
(* Bounds of the exploration                                               *)
(***************************************************************************)
\* deepest nesting of ProcessUserMessage invocations that is explored
MaxDepth == 2
\* longest history explored by the history-level specification
MaxHistLen == 5
\* configured max_context_size (tokens) used by the explored sessions
MaxContextSize == 3
\* longest history with which a new task or watch round is started
MaxCarry == 0

(***************************************************************************)
(* State                                                                   *)
(***************************************************************************)
VARIABLES
    status,            \* Manager.Status: "", "running", "waiting"
    watchMode,         \* Manager.WatchMode
    history,           \* Manager.Messages
    transcript,        \* chat log of the last summarization request since
                       \* the current input line was read
    cfg,               \* Config: confirmation switches, ExecPane.IsPrepared
    stack,             \* call stack of ProcessUserMessage invocations
    fg,                \* position of the foreground (input loop) thread
    task,              \* the goroutine launched by processInput
    ctxCancelled,      \* cancel() of processInput's context was called
    sigPending,        \* an os.Interrupt is buffered in sigChan
    reported,          \* "Operation canceled." printed by this processInput
    gR,                \* guideline check: the AIResponse under test
    gVerdict,          \* guideline check: result of aiFollowedGuidelines
    sqPrev,            \* history before the last squashHistory call
    sqResult,          \* how the last squashHistory call ended
    reflectionLog,     \* Manager.ReflectionLog
    pendingReflections, \* Manager.pendingReflections
    logFile,           \* content of lessons-learned.json
    refl,              \* reflection pipeline: position and what it has done
    conf,              \* a confirmedToExecFn call: arguments, position, result
    ed,                \* a readConfirmationInput call: buffer, cursor, input
    manifest,          \* the tools manifest file: missing, or its content
    mf,                \* the calls made on the manifest and their results
    pane               \* a TmuxSendCommandToPane call: what tmux was run with

vars == <<status, watchMode, history, transcript, cfg, stack, fg, task,
          ctxCancelled, sigPending, reported, gR, gVerdict, sqPrev, sqResult,
          reflectionLog, pendingReflections, logFile, refl, conf, ed,
          manifest, mf, pane>>

(***************************************************************************)
(* AIResponse and the guardrail check                                      *)
(***************************************************************************)
Range(s) == {s[i] : i \in DOMAIN s}

AIResponse ==
    [ExecCommand : {<<>>, <<"c1">>, <<"c1", "c2">>},
     SendKeys : {<<>>, <<"k1">>, <<"k1", "k2">>},
     PasteMultilineContent : {"", "p"},
     RequestAccomplished : BOOLEAN,
     ExecPaneSeemsBusy : BOOLEAN,
     WaitingForUserResponse : BOOLEAN,
     NoComment : BOOLEAN]

GuidelineBool == "Only one boolean flag should be set to true"
GuidelineTags == "You can only use one type of XML tag"
GuidelineNone == "You must use at least one XML tag"

B2N(b) == IF b THEN 1 ELSE 0

boolCountOf(r) ==
    B2N(r.RequestAccomplished) + B2N(r.ExecPaneSeemsBusy)
    + B2N(r.WaitingForUserResponse) + B2N(r.NoComment)

tagsOf(r) ==
    <<Len(r.ExecCommand), Len(r.SendKeys),
      IF r.PasteMultilineContent # "" THEN 1 ELSE 0>>

countOf(r) ==
    LET tags == tagsOf(r)
    IN  B2N(tags[1] > 0) + B2N(tags[2] > 0) + B2N(tags[3] > 0)

\* mutant: the NoComment flag is not counted
aiFollowedGuidelinesNoCommentDropped(r, watch) ==
    LET boolCount == B2N(r.RequestAccomplished) + B2N(r.ExecPaneSeemsBusy)
                     + B2N(r.WaitingForUserResponse)
        count == countOf(r)
    IN  IF boolCount > 1 THEN [msg |-> GuidelineBool, valid |-> FALSE]
        ELSE IF count > 1 THEN [msg |-> GuidelineTags, valid |-> FALSE]
        ELSE IF ~watch /\ count + boolCount = 0
             THEN [msg |-> GuidelineNone, valid |-> FALSE]
        ELSE [msg |-> "", valid |-> TRUE]

aiFollowedGuidelines(r, watch) ==
    LET boolCount == boolCountOf(r)
        count == countOf(r)
    IN  IF boolCount > 1 THEN [msg |-> GuidelineBool, valid |-> FALSE]
        ELSE IF count > 1 THEN [msg |-> GuidelineTags, valid |-> FALSE]
        ELSE IF ~watch /\ count + boolCount = 0
             THEN [msg |-> GuidelineNone, valid |-> FALSE]
        ELSE [msg |-> "", valid |-> TRUE]

(***************************************************************************)
(* Specification of the guardrail check over all AIResponse values         *)
(***************************************************************************)
NoResponse ==
    [ExecCommand |-> <<>>, SendKeys |-> <<>>, PasteMultilineContent |-> "",
     RequestAccomplished |-> FALSE, ExecPaneSeemsBusy |-> FALSE,
     WaitingForUserResponse |-> FALSE, NoComment |-> FALSE]

NoVerdict == [msg |-> "", valid |-> FALSE, done |-> FALSE]

\* SessionOverrides["max_context_size"]: absent, or an int set by /config set
NoOverride == [exists |-> FALSE, val |-> 0]
Override(n) == [exists |-> TRUE, val |-> n]

DefaultCfg ==
    [ExecConfirm |-> TRUE, SendKeysConfirm |-> TRUE,
     PasteMultilineConfirm |-> TRUE, IsPrepared |-> FALSE,
     MaxContextSize |-> MaxContextSize, SessionOverride |-> NoOverride]

SessionIdle ==
    /\ status = ""
    /\ history = <<>>
    /\ transcript = <<>>
    /\ cfg = DefaultCfg
    /\ stack = <<>>
    /\ fg = "prompt"
    /\ task = "idle"
    /\ ctxCancelled = FALSE
    /\ sigPending = FALSE
    /\ reported = FALSE

GuideIdle == gR = NoResponse /\ gVerdict = NoVerdict
SquashIdle == sqPrev = <<>> /\ sqResult = "none"

\* the reflection pipeline of a manager that has no log file and no task
NoRefl ==
    [pc |-> "idle", cur |-> <<>>, calls |-> <<>>, processed |-> <<>>,
     prev |-> <<>>, dropped |-> 0, last |-> "none", written |-> FALSE,
     drained |-> FALSE, added |-> <<>>]

ReflIdle ==
    /\ reflectionLog = <<>>
    /\ pendingReflections = <<>>
    /\ logFile = <<>>
    /\ refl = NoRefl

\* no confirmation is being asked for
NoRet == [isSafe |-> FALSE, command |-> <<>>]

NoConf ==
    [pc |-> "idle", command |-> <<>>, edit |-> FALSE, wl |-> <<>>, bl |-> <<>>,
     prompts |-> 0, input |-> <<>>, acted |-> "none", opened |-> FALSE,
     ret |-> NoRet]

\* no confirmation line is being read
NoLine == [line |-> <<>>, cancelled |-> FALSE, err |-> FALSE]

NoEd ==
    [pc |-> "idle", buffer |-> <<>>, cursor |-> 0, seq |-> <<>>, keys |-> 0,
     key |-> 0, beeped |-> FALSE, prevBuffer |-> <<>>, prevCursor |-> 0,
     arrivals |-> <<>>, polls |-> <<>>, ret |-> NoLine]

PromptIdle == conf = NoConf /\ ed = NoEd

\* no manifest is configured and no call on it has been made
NoFile == [exists |-> FALSE, content |-> <<>>]

NoCall ==
    [section |-> <<>>, name |-> <<>>, description |-> <<>>,
     Action |-> "", modified |-> FALSE, err |-> FALSE, before |-> NoFile]

NoMf == [calls |-> 0, last |-> NoCall, prev |-> NoCall]

ManifestIdle == manifest = NoFile /\ mf = NoMf

\* nothing is being sent to a pane
NoSend ==
    [pc |-> "idle", command |-> <<>>, autoenter |-> FALSE, i |-> 0,
     runs |-> <<>>, err |-> FALSE]

PaneIdle == pane = NoSend

sessionVars == <<status, history, transcript, cfg, stack, fg, task,
                 ctxCancelled, sigPending, reported>>
guideVars == <<gR, gVerdict>>
squashVars == <<sqPrev, sqResult>>
reflVars == <<reflectionLog, pendingReflections, logFile, refl>>
promptVars == <<conf, ed>>
manifestVars == <<manifest, mf>>

InitGuide ==
    /\ SessionIdle
    /\ SquashIdle
    /\ ReflIdle
    /\ PromptIdle
    /\ ManifestIdle
    /\ PaneIdle
    /\ watchMode \in BOOLEAN
    /\ gR \in AIResponse
    /\ gVerdict = NoVerdict

\* m.aiFollowedGuidelines(r) applied to the drawn response
GuideCheck ==
    /\ ~gVerdict.done
    /\ gVerdict' = [msg |-> aiFollowedGuidelines(gR, watchMode).msg,
                    valid |-> aiFollowedGuidelines(gR, watchMode).valid,
                    done |-> TRUE]
    /\ UNCHANGED <<gR, watchMode, sessionVars, squashVars, reflVars,
                   promptVars,
                   manifestVars, pane>>

NextGuide == GuideCheck

SpecGuide == InitGuide /\ [][NextGuide]_vars

\* independent reading of the three guardrail conditions
FlagSet(r) ==
    {f \in {"RequestAccomplished", "ExecPaneSeemsBusy",
            "WaitingForUserResponse", "NoComment"} : r[f]}

CategorySet(r) ==
    {c \in {"ExecCommand", "SendKeys"} : r[c] # <<>>}
    \cup (IF r.PasteMultilineContent # "" THEN {"PasteMultilineContent"} ELSE {})

\* C1: aiFollowedGuidelines reports the response invalid iff more than one
\* flag is true, or more than one action category is non-empty, or watch mode
\* is off and neither a flag nor a category is set.
C1_GuardrailIff ==
    gVerdict.done =>
        (~gVerdict.valid <=>
            \/ Cardinality(FlagSet(gR)) > 1
            \/ Cardinality(CategorySet(gR)) > 1
            \/ (~watchMode /\ FlagSet(gR) = {} /\ CategorySet(gR) = {}))

\* a watch-mode response carrying only NoComment was checked and accepted
C1_Witness ==
    /\ gVerdict.done
    /\ gVerdict.valid
    /\ watchMode
    /\ FlagSet(gR) = {"NoComment"}
    /\ CategorySet(gR) = {}

(***************************************************************************)
(* Context window manager: needSquash, squashHistory, summarizeChatHistory *)
(***************************************************************************)
ChatMessage(content, fromUser) == [Content |-> content, FromUser |-> fromUser]

SummaryPrefix == "CHAT HISTORY SUMMARY:"

\* fmt.Sprintf("CHAT HISTORY SUMMARY:\n%s", summary) for the texts the model
\* may return as a summary
Summaries == {"s1", "s2"}
SummaryContent(summary) ==
    IF summary = "s1" THEN "CHAT HISTORY SUMMARY: s1"
    ELSE "CHAT HISTORY SUMMARY: s2"

SummaryContents == {SummaryContent(s) : s \in Summaries}

\* the texts ProcessUserMessage is called with
UserInput == "user input"
WatchDesc == "Watch for: ..."
WaitedText == "waited for 5 more seconds, here is the current pane(s) content"
UpdatedText == "sending updated pane(s) content"

UserTexts ==
    {UserInput, WatchDesc, "", WaitedText, UpdatedText,
     GuidelineBool, GuidelineTags, GuidelineNone}

\* token estimate of a message content (a length heuristic): turn inputs carry
\* the pane snapshot and are longer than responses and summaries
EstimateTokenCount(content) ==
    IF content \in UserTexts \cup {"q1", "q2"} THEN 2 ELSE 1

RECURSIVE totalTokensOf(_)
totalTokensOf(h) ==
    IF h = <<>> THEN 0
    ELSE EstimateTokenCount(Head(h).Content) + totalTokensOf(Tail(h))

\* m.GetMaxContextSize(): the session override if present, else the config
GetMaxContextSize(c) ==
    IF c.SessionOverride.exists THEN c.SessionOverride.val
    ELSE c.MaxContextSize

\* mutant: the whole context size is the threshold
thresholdOfWhole(max) == max

\* int(float64(max) * 0.8)
thresholdOf(max) == (max * 8) \div 10

needSquash(h, max) == totalTokensOf(h) > thresholdOf(max)

hasSystemMessage(h) == Len(h) >= 1 /\ ~h[1].FromUser

hasAssistantBaseMessage(h) ==
    hasSystemMessage(h) /\ Len(h) >= 2 /\ ~h[2].FromUser

startIdxOf(h) == B2N(hasSystemMessage(h)) + B2N(hasAssistantBaseMessage(h))

\* mutant: the last message is summarized too
messagesToSummarizeAll(h) == SubSeq(h, startIdxOf(h) + 1, Len(h))

\* m.Messages[startIdx : len(m.Messages)-1]
messagesToSummarize(h) == SubSeq(h, startIdxOf(h) + 1, Len(h) - 1)

\* the role-tagged chat log rendered by summarizeChatHistory
chatLogOf(messages) ==
    [i \in DOMAIN messages |->
        [role |-> IF messages[i].FromUser THEN "User" ELSE "Assistant",
         content |-> messages[i].Content]]

\* mutant: a failed summarization still cuts history down to its pinned prefix
squashHistoryCutsOnError(h, outcome) ==
    IF startIdxOf(h) < Len(h) - 1
    THEN IF outcome = "err"
         THEN [history |-> SubSeq(h, 1, startIdxOf(h)),
               transcript |-> chatLogOf(messagesToSummarize(h)),
               result |-> "err"]
         ELSE [history |-> SubSeq(h, 1, startIdxOf(h))
                           \o <<ChatMessage(SummaryContent(outcome), FALSE)>>,
               transcript |-> chatLogOf(messagesToSummarize(h)),
               result |-> "ok"]
    ELSE [history |-> h, transcript |-> <<>>, result |-> "noop"]

\* mutant: the summary is requested also when only the last message follows
\* the pinned prefix
squashHistoryEager(h, outcome) ==
    IF startIdxOf(h) <= Len(h) - 1
    THEN IF outcome = "err"
         THEN [history |-> h, transcript |-> chatLogOf(messagesToSummarize(h)),
               result |-> "err"]
         ELSE [history |-> SubSeq(h, 1, startIdxOf(h))
                           \o <<ChatMessage(SummaryContent(outcome), FALSE)>>,
               transcript |-> chatLogOf(messagesToSummarize(h)),
               result |-> "ok"]
    ELSE [history |-> h, transcript |-> <<>>, result |-> "noop"]

\* outcome is "err" when the summarization request fails, else the summary
\* text returned by the model
squashHistory(h, outcome) ==
    IF startIdxOf(h) < Len(h) - 1
    THEN IF outcome = "err"
         THEN [history |-> h, transcript |-> chatLogOf(messagesToSummarize(h)),
               result |-> "err"]
         ELSE [history |-> SubSeq(h, 1, startIdxOf(h))
                           \o <<ChatMessage(SummaryContent(outcome), FALSE)>>,
               transcript |-> chatLogOf(messagesToSummarize(h)),
               result |-> "ok"]
    ELSE [history |-> h, transcript |-> <<>>, result |-> "noop"]

(***************************************************************************)
(* Specification of the /squash command over bounded histories             *)
(***************************************************************************)
SqMessages ==
    {ChatMessage(c, TRUE) : c \in {"q1", "q2"}}
    \cup {ChatMessage(c, FALSE) : c \in {"a1", "a2", SummaryContent("s1")}}

\* every turn input is appended together with the response to it, so a user
\* message is never last and never followed by another user message
WellFormedHistory(h) ==
    \A i \in DOMAIN h : h[i].FromUser => (i < Len(h) /\ ~h[i + 1].FromUser)

HistInputs ==
    {h \in UNION {[1..n -> SqMessages] : n \in 0..MaxHistLen} :
        WellFormedHistory(h)}

InitSquash ==
    /\ status = ""
    /\ history \in HistInputs
    /\ transcript = <<>>
    /\ cfg = DefaultCfg
    /\ stack = <<>>
    /\ fg = "prompt"
    /\ task = "idle"
    /\ ctxCancelled = FALSE
    /\ sigPending = FALSE
    /\ reported = FALSE
    /\ watchMode = FALSE
    /\ GuideIdle
    /\ SquashIdle
    /\ ReflIdle
    /\ PromptIdle
    /\ ManifestIdle
    /\ PaneIdle

\* ProcessSubCommand("/squash"): m.squashHistory()
SquashCommand ==
    /\ fg = "prompt"
    /\ \E outcome \in Summaries \cup {"err"} :
        LET sq == squashHistory(history, outcome)
        IN  /\ history' = sq.history
            /\ transcript' = IF sq.result = "noop" THEN transcript
                             ELSE sq.transcript
            /\ sqResult' = sq.result
    /\ sqPrev' = history
    /\ UNCHANGED <<status, watchMode, cfg, stack, fg, task, ctxCancelled,
                   sigPending, reported, guideVars, reflVars, promptVars,
                   manifestVars, pane>>

NextSquash == SquashCommand

SpecSquash == InitSquash /\ [][NextSquash]_vars

\* C10: a successful compress of a history that starts with two not-from-user
\* messages followed by at least two more leaves exactly [first, second,
\* summary]; the pinned messages keep content and position, the summary is a
\* new not-from-user message, and the transcript sent for summarization is
\* the old history without the two pinned messages and without its last one.
C10_SquashPreservesPins ==
    (/\ sqResult = "ok"
     /\ Len(sqPrev) >= 4
     /\ ~sqPrev[1].FromUser
     /\ ~sqPrev[2].FromUser)
    => /\ Len(history) = 3
       /\ history[1] = sqPrev[1]
       /\ history[2] = sqPrev[2]
       /\ ~history[3].FromUser
       /\ history[3].Content \in SummaryContents
       /\ Len(transcript) = Len(sqPrev) - 3
       /\ \A i \in DOMAIN transcript :
            /\ transcript[i].content = sqPrev[i + 2].Content
            /\ transcript[i].role =
                 (IF sqPrev[i + 2].FromUser THEN "User" ELSE "Assistant")

\* a history [pinned, pinned, user, assistant, assistant] was compressed
C10_Witness ==
    /\ sqResult = "ok"
    /\ Len(sqPrev) = 5
    /\ ~sqPrev[1].FromUser
    /\ ~sqPrev[2].FromUser
    /\ sqPrev[3].FromUser
    /\ Len(history) = 3
    /\ Len(transcript) = 2

\* C11: when the summarization request fails, compress leaves history as it
\* was before the call: the same messages in the same order.
C11_FailedSquashKeepsHistory ==
    sqResult = "err" => history = sqPrev

\* the summarization of a five-message history failed
C11_Witness ==
    /\ sqResult = "err"
    /\ Len(sqPrev) = 5
    /\ Len(transcript) >= 2
    /\ history = sqPrev

\* the positions of sqPrev behind its pinned prefix
NonPinned(h) == (startIdxOf(h) + 1) .. Len(h)

\* position i of the old history is rendered in the summarized transcript
InTranscript(h, i) ==
    /\ (i - startIdxOf(h)) \in DOMAIN transcript
    /\ transcript[i - startIdxOf(h)].content = h[i].Content

\* C12: the only non-pinned message a successful compress leaves out of the
\* summarized transcript is the most recent user message; every non-pinned
\* message that is not from the user is in the transcript.
C12_OnlyUserQuestionLeftOut ==
    sqResult = "ok" =>
        \A i \in NonPinned(sqPrev) :
            ~InTranscript(sqPrev, i) =>
                (sqPrev[i].FromUser /\ i = Len(sqPrev))

\* what a compress that finds nothing to summarize returns
Nothing(h) == [history |-> h, transcript |-> <<>>, result |-> "noop"]

\* C39: compress is idempotent: a compress right after a successful one
\* issues no model request and leaves history unchanged, and in general
\* compress issues no request and changes nothing whenever no message lies
\* between the pinned prefix and the last message.
C39_SquashIdempotent ==
    /\ sqResult = "ok" =>
        \A outcome \in Summaries \cup {"err"} :
            squashHistory(history, outcome) = Nothing(history)
    /\ (sqResult # "none" /\ messagesToSummarize(sqPrev) = <<>>) =>
        (sqResult = "noop" /\ history = sqPrev)

\* the compress after a successful compress of five messages did nothing
C39_Witness ==
    /\ sqResult = "noop"
    /\ transcript # <<>>
    /\ Len(sqPrev) = 3
    /\ history = sqPrev
    /\ history[3].Content \in SummaryContents

(***************************************************************************)
(* The session: processInput, ProcessUserMessage, startWatchMode           *)
(***************************************************************************)
\* the raw responses the model collaborator returns in the explored sessions
Resp(raw) ==
    CASE raw = "accomplished" -> [NoResponse EXCEPT !.RequestAccomplished = TRUE]
      [] raw = "busy" -> [NoResponse EXCEPT !.ExecPaneSeemsBusy = TRUE]
      [] raw = "waiting" -> [NoResponse EXCEPT !.WaitingForUserResponse = TRUE]
      [] raw = "nocomment" -> [NoResponse EXCEPT !.NoComment = TRUE]
      [] raw = "exec" -> [NoResponse EXCEPT !.ExecCommand = <<"c1">>]
      [] raw = "keys2" -> [NoResponse EXCEPT !.SendKeys = <<"k1", "k2">>]
      [] raw = "key1waiting" -> [NoResponse EXCEPT !.SendKeys = <<"k1">>,
                                                  !.WaitingForUserResponse = TRUE]
      [] raw = "paste" -> [NoResponse EXCEPT !.PasteMultilineContent = "p"]
      [] raw = "execdone" -> [NoResponse EXCEPT !.ExecCommand = <<"c1">>,
                                               !.RequestAccomplished = TRUE]
      [] raw = "exec2busy" -> [NoResponse EXCEPT !.ExecCommand = <<"c1", "c2">>,
                                                !.ExecPaneSeemsBusy = TRUE]
      [] raw = "pastebusy" -> [NoResponse EXCEPT !.PasteMultilineContent = "p",
                                                !.ExecPaneSeemsBusy = TRUE]
      [] raw = "twoflags" -> [NoResponse EXCEPT !.RequestAccomplished = TRUE,
                                               !.ExecPaneSeemsBusy = TRUE]
      [] OTHER -> NoResponse

ParsableResponses ==
    {"accomplished", "busy", "waiting", "nocomment", "exec", "keys2", "paste",
     "execdone", "exec2busy", "pastebusy", "twoflags", "message only",
     "key1waiting"}

RawResponses == ParsableResponses \cup {"garbage"}

\* m.parseAIResponse(response): the structured response, or an error
parseAIResponse(raw) ==
    IF raw \in ParsableResponses THEN [err |-> FALSE, r |-> Resp(raw)]
    ELSE [err |-> TRUE, r |-> NoResponse]

\* the command text as changed in the external editor
Edited(command) == IF command = "c1" THEN "c1 edited" ELSE "c2 edited"

\* a call of ProcessUserMessage at its entry.  seen is m.Status as the call
\* found it when its request came back, for the calls that return at once;
\* got lists what the calls made by this call returned.
NewFrame(text, ctx, h) ==
    [text |-> text, ctx |-> ctx, pc |-> "entry", raw |-> "", valid |-> FALSE,
     i |-> 0, sent |-> <<>>, calls |-> <<>>, h0 |-> h, declined |-> FALSE,
     why |-> "", ret |-> FALSE, squash |-> "none", answers |-> <<>>,
     asked |-> <<>>, seen |-> "none", got |-> <<>>]

Top == stack[Len(stack)]
SetTop(f) == [stack EXCEPT ![Len(stack)] = f]
Running == stack # <<>>

\* ctx.Err() != nil: only processInput's context is ever cancelled while the
\* call runs; the contexts made for busy continuations and for watch mode are
\* cancelled by nobody before the call returns
CtxErr(ctx) == ctx = "task" /\ ctxCancelled

\* mutant: a call whose request failed reports the request as accomplished
ReturnedTrueOnError(f, v, why) ==
    [f EXCEPT !.pc = "ret", !.why = why,
              !.ret = IF why = "transport error" THEN TRUE ELSE v]

\* the call returns v; why names the return statement taken
Returned(f, v, why) == [f EXCEPT !.pc = "ret", !.ret = v, !.why = why]

\* where the turn goes on after each section of ProcessUserMessage
StageAfterBusy(r) == IF r.PasteMultilineContent # "" THEN "paste" ELSE "final"
StageAfterKeys(r) == IF r.ExecPaneSeemsBusy THEN "countdown" ELSE StageAfterBusy(r)
StageAfterExec(r) == IF Len(r.SendKeys) > 0 THEN "keys" ELSE StageAfterKeys(r)
StageAfterAppend(r) == IF Len(r.ExecCommand) > 0 THEN "exec" ELSE StageAfterExec(r)

\* the parse of every raw response ("" before the response has arrived)
Parsed == [raw \in RawResponses \cup {""} |-> parseAIResponse(raw).r]

R(f) == Parsed[f.raw]

currentMessage(f) == ChatMessage(f.text, TRUE)
\* the response text as stored in history; what it says does not matter to
\* any later step, only that it is the assistant's reply
ResponseText == "response"
\* mutant: the response is stored as a message of the user
responseMsgFromUser(raw) == ChatMessage(ResponseText, TRUE)
responseMsg(raw) == ChatMessage(ResponseText, FALSE)

\* max_context_size as shipped (DefaultConfig)
DefaultMaxContextSize == 100000

\* the explored configurations: confirmations on with the context size taken
\* from the config file, and confirmations off with the shipped context size
\* overridden for the session
Cfgs ==
    {DefaultCfg,
     [ExecConfirm |-> FALSE, SendKeysConfirm |-> FALSE,
      PasteMultilineConfirm |-> FALSE, IsPrepared |-> FALSE,
      MaxContextSize |-> DefaultMaxContextSize,
      SessionOverride |-> Override(MaxContextSize)]}

Init ==
    /\ status = ""
    /\ watchMode = FALSE
    /\ history = <<>>
    /\ transcript = <<>>
    /\ cfg \in Cfgs
    /\ stack = <<>>
    /\ fg = "prompt"
    /\ task = "idle"
    /\ ctxCancelled = FALSE
    /\ sigPending = FALSE
    /\ reported = FALSE
    /\ GuideIdle
    /\ SquashIdle
    /\ ReflIdle
    /\ PromptIdle
    /\ ManifestIdle
    /\ PaneIdle

notSession == <<gR, gVerdict, sqPrev, sqResult, reflVars, promptVars,
                   manifestVars, pane>>

\* mutant: an approved edit returns the command it was given
confirmedToExecKeepsOriginal(command, answer, edit) ==
    CASE answer \in {"yes", "edit"} -> [isSafe |-> TRUE, command |-> command]
      [] OTHER -> [isSafe |-> FALSE, command |-> ""]

\* m.confirmedToExec(command, prompt, edit) for each way the prompt can end:
\* approved as it is, approved as edited, the edit left nothing, rejected.
\* The edit argument chooses the prompt text only: the answers e and edit open
\* the editor whatever its value.
confirmedToExec(command, answer, edit) ==
    CASE answer = "yes" -> [isSafe |-> TRUE, command |-> command]
      [] answer = "edit" -> [isSafe |-> TRUE, command |-> Edited(command)]
      [] OTHER -> [isSafe |-> FALSE, command |-> ""]

\* the ways a confirmation can end; only "yes" when none is required
Answers(required, edit) ==
    IF ~required THEN {"yes"}
    ELSE {"yes", "edit", "blank edit", "no"}

\* mutant: the rejected entry is sent before the turn returns
DeclinedAfterSend(f) ==
    [f EXCEPT !.pc = "ret", !.ret = FALSE, !.why = "declined",
              !.declined = TRUE,
              !.sent = Append(@, [cat |-> "exec", text |-> "c1"])]

\* mutant: the turn does not return after the rejection
DeclinedFallsThrough(f) ==
    [f EXCEPT !.declined = TRUE, !.pc = StageAfterKeys(R(f))]

\* a rejected confirmation: the turn returns false (the caller of this
\* operator also clears status)
Declined(f) ==
    [f EXCEPT !.pc = "ret", !.ret = FALSE, !.why = "declined",
              !.declined = TRUE]

\* ProcessUserMessage lines 17-30: squash when needed, then the early exit on
\* an already cancelled context
Entry ==
    /\ Running
    /\ Top.pc = "entry"
    /\ \E outcome \in {"s1", "err"} :
        LET need == needSquash(history, GetMaxContextSize(cfg))
            sq == IF need
                  THEN squashHistory(history, outcome)
                  ELSE [history |-> history, transcript |-> <<>>,
                        result |-> "noop"]
            f == [Top EXCEPT !.squash = IF need THEN sq.result ELSE "none"]
        IN  /\ history' = sq.history
            /\ transcript' = IF sq.result = "noop" THEN transcript
                             ELSE sq.transcript
            /\ stack' = SetTop(
                    IF CtxErr(Top.ctx)
                    THEN Returned(f, FALSE, "cancelled before request")
                    ELSE [f EXCEPT !.pc = "request"])
    /\ UNCHANGED <<status, watchMode, cfg, fg, task, ctxCancelled, sigPending,
                   reported, notSession>>

\* mutant: the status is not looked at again
StatusChangedNever(s) == FALSE

\* ProcessUserMessage lines 77-81: "check for status change again"
StatusChanged(s) == s = ""

\* ProcessUserMessage lines 58-132: the model request returns; status check,
\* parse, guardrail check, history append
Respond ==
    /\ Running
    /\ Top.pc = "request"
    /\ \E raw \in RawResponses \cup {"error"} :
        LET top == [Top EXCEPT !.seen = status]
        IN
        IF CtxErr(Top.ctx)
        THEN /\ raw = "error"
             /\ stack' = SetTop(Returned(top, FALSE, "cancelled during request"))
             /\ UNCHANGED <<status, history>>
        ELSE IF raw = "error"
        THEN /\ stack' = SetTop(Returned(top, FALSE, "transport error"))
             /\ UNCHANGED <<status, history>>
        ELSE IF StatusChanged(status)
        THEN /\ stack' = SetTop(Returned(top, FALSE, "status cleared"))
             /\ UNCHANGED <<status, history>>
        ELSE IF parseAIResponse(raw).err
        THEN /\ status' = ""
             /\ stack' = SetTop(Returned(top, FALSE, "parse error"))
             /\ UNCHANGED history
        ELSE LET r == parseAIResponse(raw).r
                 g == aiFollowedGuidelines(r, watchMode)
                 f == [Top EXCEPT !.raw = raw, !.valid = g.valid]
             IN  IF ~g.valid
                 THEN /\ Len(stack) < MaxDepth
                      /\ history' = history
                                    \o <<currentMessage(Top), responseMsg(raw)>>
                      /\ stack' = Append(
                            SetTop([f EXCEPT !.pc = "retryWait",
                                             !.calls = Append(@, g.msg)]),
                            NewFrame(g.msg, Top.ctx, history'))
                      /\ UNCHANGED status
                 ELSE /\ history' =
                            IF r.ExecPaneSeemsBusy \/ r.NoComment THEN history
                            ELSE history
                                 \o <<currentMessage(Top), responseMsg(raw)>>
                      /\ stack' = SetTop([f EXCEPT !.pc = StageAfterAppend(r),
                                                   !.i = 1])
                      /\ UNCHANGED status
    /\ UNCHANGED <<watchMode, transcript, cfg, fg, task, ctxCancelled,
                   sigPending, reported, notSession>>

\* the prompts of the three confirmations
ExecPrompt == "Execute this command?"
PastePrompt == "Paste multiline content?"

\* mutant: the batch is always asked for as one key
confirmMessageSingular(keys) == "Send this key?"

\* ProcessUserMessage lines 179-182
confirmMessage(keys) ==
    IF Len(keys) > 1 THEN "Send all these keys?" ELSE "Send this key?"

\* TmuxSendCommandToPane's autoEnter argument for each kind of effect
AutoEnter(cat) == cat # "keys"

\* ProcessUserMessage lines 135-158: one entry of ExecCommand
ExecStep ==
    /\ Running
    /\ Top.pc = "exec"
    /\ LET r == R(Top)
           execCommand == r.ExecCommand[Top.i]
       IN  \E answer \in Answers(cfg.ExecConfirm, TRUE) :
            LET c == confirmedToExec(execCommand, answer, TRUE)
                asked == [Top EXCEPT
                            !.answers = Append(@, IF cfg.ExecConfirm THEN answer
                                                  ELSE "not asked"),
                            !.asked = IF cfg.ExecConfirm
                                      THEN Append(@, ExecPrompt) ELSE @]
            IN  IF c.isSafe
                THEN /\ stack' = SetTop(
                        [asked EXCEPT
                            !.sent = Append(@, [cat |-> "exec",
                                                text |-> c.command]),
                            !.i = IF Top.i < Len(r.ExecCommand)
                                  THEN Top.i + 1 ELSE 1,
                            !.pc = IF Top.i < Len(r.ExecCommand)
                                   THEN "exec" ELSE StageAfterExec(r)])
                     /\ UNCHANGED status
                ELSE /\ status' = ""
                     /\ stack' = SetTop(Declined(asked))
    /\ UNCHANGED <<watchMode, history, transcript, cfg, fg, task, ctxCancelled,
                   sigPending, reported, notSession>>

\* ProcessUserMessage lines 161-192: preview and one confirmation for all keys
KeysConfirm ==
    /\ Running
    /\ Top.pc = "keys"
    /\ IF status = ""
       THEN /\ stack' = SetTop(Returned(Top, FALSE, "status cleared"))
            /\ UNCHANGED status
       ELSE \E answer \in Answers(cfg.SendKeysConfirm, TRUE) :
            LET f == [Top EXCEPT !.asked =
                        IF cfg.SendKeysConfirm
                        THEN Append(@, confirmMessage(R(Top).SendKeys))
                        ELSE @]
            IN  IF confirmedToExec("keys shown above", answer, TRUE).isSafe
                THEN /\ stack' = SetTop([f EXCEPT !.pc = "sendkeys", !.i = 1])
                     /\ UNCHANGED status
                ELSE /\ status' = ""
                     /\ stack' = SetTop(Declined(f))
    /\ UNCHANGED <<watchMode, history, transcript, cfg, fg, task, ctxCancelled,
                   sigPending, reported, notSession>>

\* ProcessUserMessage lines 195-199: one key of SendKeys
KeysSend ==
    /\ Running
    /\ Top.pc = "sendkeys"
    /\ LET r == R(Top)
       IN  stack' = SetTop(
            [Top EXCEPT
                !.sent = Append(@, [cat |-> "keys", text |-> r.SendKeys[Top.i]]),
                !.i = IF Top.i < Len(r.SendKeys) THEN Top.i + 1 ELSE 1,
                !.pc = IF Top.i < Len(r.SendKeys)
                       THEN "sendkeys" ELSE StageAfterKeys(r)])
    /\ UNCHANGED <<status, watchMode, history, transcript, cfg, fg, task,
                   ctxCancelled, sigPending, reported, notSession>>

\* mutant: the continuation's context is a child of the turn's context, and
\* is cancelled with it
newCtxChild(ctx) == ctx

\* context.WithCancel(context.Background()) at line 205: a context that the
\* cancellation of ctx does not reach
newCtx(ctx) == "fresh"

\* ProcessUserMessage lines 202-207: the countdown is over, the continuation
\* is called under a new background context
BusyContinue ==
    /\ Running
    /\ Top.pc = "countdown"
    /\ Len(stack) < MaxDepth
    /\ stack' = Append(
            SetTop([Top EXCEPT !.pc = "busyWait",
                               !.calls = Append(@, WaitedText)]),
            NewFrame(WaitedText, newCtx(Top.ctx), history))
    /\ UNCHANGED <<status, watchMode, history, transcript, cfg, fg, task,
                   ctxCancelled, sigPending, reported, notSession>>

\* ProcessUserMessage lines 214-233
PasteStep ==
    /\ Running
    /\ Top.pc = "paste"
    /\ LET r == R(Top)
       IN  \E answer \in Answers(cfg.PasteMultilineConfirm, FALSE) :
            LET f == [Top EXCEPT !.asked =
                        IF cfg.PasteMultilineConfirm
                        THEN Append(@, PastePrompt) ELSE @]
            IN  IF confirmedToExec(r.PasteMultilineContent, answer,
                                   FALSE).isSafe
                THEN /\ stack' = SetTop(
                        [f EXCEPT
                            !.sent = Append(@, [cat |-> "paste",
                                                text |-> r.PasteMultilineContent]),
                            !.pc = "final"])
                     /\ UNCHANGED status
                ELSE /\ status' = ""
                     /\ stack' = SetTop(Declined(f))
    /\ UNCHANGED <<watchMode, history, transcript, cfg, fg, task, ctxCancelled,
                   sigPending, reported, notSession>>

\* mutant: a response that waits for the user leaves the status as it is
finalStepWaitingKeepsStatus(r, watch) ==
    IF r.RequestAccomplished
    THEN [recurse |-> FALSE, ret |-> TRUE, status |-> "",
          why |-> "accomplished"]
    ELSE IF r.WaitingForUserResponse
    THEN [recurse |-> FALSE, ret |-> FALSE, status |-> "keep",
          why |-> "waiting"]
    ELSE IF r.NoComment
    THEN [recurse |-> FALSE, ret |-> FALSE, status |-> "keep",
          why |-> "no comment"]
    ELSE IF ~watch
    THEN [recurse |-> TRUE, ret |-> FALSE, status |-> "keep",
          why |-> "continuation"]
    ELSE [recurse |-> FALSE, ret |-> FALSE, status |-> "keep",
          why |-> "watch mode"]

\* mutant: the turn goes on with a new request in watch mode too
finalStepRecursesInWatchMode(r, watch) ==
    IF r.RequestAccomplished
    THEN [recurse |-> FALSE, ret |-> TRUE, status |-> "",
          why |-> "accomplished"]
    ELSE IF r.WaitingForUserResponse
    THEN [recurse |-> FALSE, ret |-> FALSE, status |-> "waiting",
          why |-> "waiting"]
    ELSE IF r.NoComment
    THEN [recurse |-> FALSE, ret |-> FALSE, status |-> "keep",
          why |-> "no comment"]
    ELSE [recurse |-> TRUE, ret |-> FALSE, status |-> "keep",
          why |-> "continuation"]

\* mutant: RequestAccomplished is not looked at
finalStepIgnoresAccomplished(r, watch) ==
    IF r.WaitingForUserResponse
    THEN [recurse |-> FALSE, ret |-> FALSE, status |-> "waiting",
          why |-> "waiting"]
    ELSE IF r.NoComment
    THEN [recurse |-> FALSE, ret |-> FALSE, status |-> "keep",
          why |-> "no comment"]
    ELSE IF ~watch
    THEN [recurse |-> TRUE, ret |-> FALSE, status |-> "keep",
          why |-> "continuation"]
    ELSE [recurse |-> FALSE, ret |-> FALSE, status |-> "keep",
          why |-> "watch mode"]

\* ProcessUserMessage lines 235-256: what the end of the turn does; status
\* "keep" stands for leaving m.Status as it is
finalStep(r, watch) ==
    IF r.RequestAccomplished
    THEN [recurse |-> FALSE, ret |-> TRUE, status |-> "",
          why |-> "accomplished"]
    ELSE IF r.WaitingForUserResponse
    THEN [recurse |-> FALSE, ret |-> FALSE, status |-> "waiting",
          why |-> "waiting"]
    ELSE IF r.NoComment
    THEN [recurse |-> FALSE, ret |-> FALSE, status |-> "keep",
          why |-> "no comment"]
    ELSE IF ~watch
    THEN [recurse |-> TRUE, ret |-> FALSE, status |-> "keep",
          why |-> "continuation"]
    ELSE [recurse |-> FALSE, ret |-> FALSE, status |-> "keep",
          why |-> "watch mode"]

\* ProcessUserMessage lines 235-256
Finish ==
    /\ Running
    /\ Top.pc = "final"
    /\ LET fin == finalStep(R(Top), watchMode)
       IN  /\ status' = IF fin.status = "keep" THEN status ELSE fin.status
           /\ IF fin.recurse
              THEN /\ Len(stack) < MaxDepth
                   /\ stack' = Append(
                        SetTop([Top EXCEPT !.pc = "contWait",
                                           !.calls = Append(@, UpdatedText)]),
                        NewFrame(UpdatedText, Top.ctx, history))
              ELSE stack' = SetTop(Returned(Top, fin.ret, fin.why))
    /\ UNCHANGED <<watchMode, history, transcript, cfg, fg, task, ctxCancelled,
                   sigPending, reported, notSession>>

\* mutant: the result of the call made after a guardrail violation is lost
ResumeDropsRetryResult(caller, accomplished) ==
    LET c == [caller EXCEPT !.got = Append(@, accomplished)]
    IN  CASE caller.pc = "retryWait" ->
                Returned(c, FALSE, "guardrail retry")
          [] caller.pc = "busyWait" ->
                IF accomplished THEN Returned(c, TRUE, "busy continuation")
                ELSE [c EXCEPT !.pc = StageAfterBusy(R(caller))]
          [] OTHER ->
                Returned(c, accomplished, "continuation")

\* how the calling turn goes on when the call it made returns accomplished;
\* got lists what the calls of the turn returned
Resume(caller, accomplished) ==
    LET c == [caller EXCEPT !.got = Append(@, accomplished)]
    IN  CASE caller.pc = "retryWait" ->
                Returned(c, accomplished, "guardrail retry")
          [] caller.pc = "busyWait" ->
                IF accomplished THEN Returned(c, TRUE, "busy continuation")
                ELSE [c EXCEPT !.pc = StageAfterBusy(R(caller))]
          [] OTHER ->
                Returned(c, accomplished, "continuation")

\* a nested ProcessUserMessage call returns to the turn that made it
ReturnToCaller ==
    /\ Len(stack) > 1
    /\ Top.pc = "ret"
    /\ stack' = [SubSeq(stack, 1, Len(stack) - 1)
                    EXCEPT ![Len(stack) - 1] = Resume(@, Top.ret)]
    /\ UNCHANGED <<status, watchMode, history, transcript, cfg, fg, task,
                   ctxCancelled, sigPending, reported, notSession>>

\* mutant: the task goroutine exits without its deferred status reset
TaskExitKeepsStatus ==
    /\ Len(stack) = 1
    /\ Top.pc = "ret"
    /\ task = "running"
    /\ stack' = <<>>
    /\ task' = "done"
    /\ UNCHANGED <<status, watchMode, history, transcript, cfg, fg,
                   ctxCancelled, sigPending, reported, notSession>>

\* processInput lines 143-151: the outermost call returns, the deferred
\* functions of the task goroutine run
TaskExit ==
    /\ Len(stack) = 1
    /\ Top.pc = "ret"
    /\ task = "running"
    /\ stack' = <<>>
    /\ status' = ""
    /\ task' = "done"
    /\ UNCHANGED <<watchMode, history, transcript, cfg, fg, ctxCancelled,
                   sigPending, reported, notSession>>

\* processInput lines 124-158 for an input line that is not a command
Submit ==
    /\ fg = "prompt"
    /\ Len(history) <= MaxCarry
    /\ fg' = "select"
    /\ task' = "running"
    /\ status' = "running"
    /\ stack' = <<NewFrame(UserInput, "task", history)>>
    /\ ctxCancelled' = FALSE
    /\ sigPending' = FALSE
    /\ reported' = FALSE
    /\ transcript' = <<>>
    /\ UNCHANGED <<watchMode, history, cfg, notSession>>

\* an os.Interrupt is delivered while signal.Notify(sigChan) is in force
Interrupt ==
    /\ fg = "select"
    /\ ~sigPending
    /\ sigPending' = TRUE
    /\ UNCHANGED <<status, watchMode, history, transcript, cfg, stack, fg,
                   task, ctxCancelled, reported, notSession>>

\* mutant: done is readable before the task goroutine has finished
DoneClosedEarly == TRUE

\* wg.Wait() returned and close(done) ran
DoneClosed == task = "done"

\* processInput lines 161-164: case <-sigChan, cancel()
SelectSignal ==
    /\ fg = "select"
    /\ sigPending
    /\ sigPending' = FALSE
    /\ ctxCancelled' = TRUE
    /\ fg' = "drain"
    /\ UNCHANGED <<status, watchMode, history, transcript, cfg, stack, task,
                   reported, notSession>>

\* processInput lines 165-166: <-done, "Operation canceled."
ReportCanceled ==
    /\ fg = "drain"
    /\ DoneClosed
    /\ reported' = TRUE
    /\ fg' = "prompt"
    /\ UNCHANGED <<status, watchMode, history, transcript, cfg, stack, task,
                   ctxCancelled, sigPending, notSession>>

\* processInput lines 167-173: case <-done
SelectDone ==
    /\ fg = "select"
    /\ DoneClosed
    /\ fg' = "prompt"
    /\ sigPending' = FALSE
    /\ UNCHANGED <<status, watchMode, history, transcript, cfg, stack, task,
                   ctxCancelled, reported, notSession>>

\* the next input line is read: what the previous processInput call left
\* behind (its context, its goroutine, its output) is gone
NewLine ==
    /\ task' = "idle"
    /\ ctxCancelled' = FALSE
    /\ sigPending' = FALSE
    /\ reported' = FALSE
    /\ transcript' = <<>>

\* ProcessSubCommand("/clear")
ClearCommand ==
    /\ fg = "prompt"
    /\ history # <<>>
    /\ history' = <<>>
    /\ NewLine
    /\ UNCHANGED <<status, watchMode, cfg, stack, fg, notSession>>

\* ProcessSubCommand("/watch <description>") up to the first countdown of
\* startWatchMode
WatchCommand ==
    /\ fg = "prompt"
    /\ Len(history) <= MaxCarry
    /\ status' = "running"
    /\ watchMode' = TRUE
    /\ fg' = "watchFirst"
    /\ NewLine
    /\ UNCHANGED <<history, cfg, stack, notSession>>

\* startWatchMode lines 266-272: the countdown is over, the turn is called
WatchTurn ==
    /\ fg \in {"watchFirst", "watchAgain"}
    /\ stack = <<>>
    /\ stack' = <<NewFrame(IF fg = "watchFirst" THEN WatchDesc ELSE "",
                           "fresh", history)>>
    /\ fg' = "watchCall"
    /\ UNCHANGED <<status, watchMode, history, transcript, cfg, task,
                   ctxCancelled, sigPending, reported, notSession>>

\* startWatchMode lines 272-281: the turn returned
WatchReturn ==
    /\ fg = "watchCall"
    /\ Len(stack) = 1
    /\ Top.pc = "ret"
    /\ stack' = <<>>
    /\ watchMode' = IF Top.ret THEN FALSE ELSE watchMode
    /\ status' = IF Top.ret THEN "" ELSE status
    /\ fg' = IF status' # "" /\ watchMode' /\ Len(history) <= MaxCarry
             THEN "watchAgain" ELSE "prompt"
    /\ UNCHANGED <<history, transcript, cfg, task, ctxCancelled, sigPending,
                   reported, notSession>>

Next ==
    \/ Submit
    \/ Interrupt
    \/ SelectSignal
    \/ SelectDone
    \/ ReportCanceled
    \/ ClearCommand
    \/ WatchCommand
    \/ WatchTurn
    \/ WatchReturn
    \/ Entry
    \/ Respond
    \/ ExecStep
    \/ KeysConfirm
    \/ KeysSend
    \/ BusyContinue
    \/ PasteStep
    \/ Finish
    \/ ReturnToCaller
    \/ TaskExit

Spec == Init /\ [][Next]_vars

TypeOK ==
    /\ status \in {"", "running", "waiting"}
    /\ watchMode \in BOOLEAN
    /\ Len(stack) <= MaxDepth
    /\ fg \in {"prompt", "select", "drain", "watchFirst", "watchAgain",
               "watchCall"}
    /\ task \in {"idle", "running", "done"}

(***************************************************************************)
(* Properties of the session                                               *)
(***************************************************************************)
ExecTurn(f) == f.valid /\ Len(R(f).ExecCommand) > 0

\* C2: when exec confirmation is required and the confirmation of an entry of
\* ExecCommand is declined, that entry and every later one are not sent, no
\* SendKeys, paste, busy-wait or continuation step of the turn runs, status
\* is "" and the turn returns false.
C2_DeclinedExecStops ==
    \A k \in DOMAIN stack :
        (ExecTurn(stack[k]) /\ stack[k].declined) =>
            /\ cfg.ExecConfirm
            /\ k = Len(stack)
            /\ stack[k].pc = "ret"
            /\ stack[k].ret = FALSE
            /\ status = ""
            /\ stack[k].calls = <<>>
            /\ Len(stack[k].sent) < stack[k].i
            /\ \A j \in DOMAIN stack[k].sent : stack[k].sent[j].cat = "exec"

\* the second entry of a two-command response that also reports a busy pane
\* was declined after the first had been approved
C2_Witness ==
    /\ Running
    /\ Top.raw = "exec2busy"
    /\ Top.declined
    /\ Top.i = 2
    /\ Top.pc = "ret"

\* C3 as stated: once a confirmation of an ExecCommand entry is declined,
\* none of the entries of that list has been sent in the turn.
C3_NothingSentOnDecline ==
    \A k \in DOMAIN stack :
        (ExecTurn(stack[k]) /\ stack[k].declined) => stack[k].sent = <<>>

\* C3 as amended: once the confirmation of entry i is declined, exactly the
\* entries before i have been sent, in list order, each as approved (the
\* command itself or its edited text); entry i and the later ones have not.
C3_OnlyEarlierEntriesSent ==
    \A k \in DOMAIN stack :
        (ExecTurn(stack[k]) /\ stack[k].declined) =>
            /\ Len(stack[k].sent) = stack[k].i - 1
            /\ \A j \in DOMAIN stack[k].sent :
                /\ stack[k].sent[j].cat = "exec"
                /\ stack[k].sent[j].text \in
                     {R(stack[k]).ExecCommand[j],
                      Edited(R(stack[k]).ExecCommand[j])}

\* the first command was sent as edited, the second was declined
C3_Witness ==
    /\ Running
    /\ ExecTurn(Top)
    /\ Top.declined
    /\ Top.i = 2
    /\ Top.sent = <<[cat |-> "exec", text |-> "c1 edited"]>>

\* C4: a turn that returns because the task's context was cancelled before or
\* during its model request returns false and leaves history exactly as it
\* was when the turn was entered.
C4_CancelKeepsHistory ==
    \A k \in DOMAIN stack :
        (/\ stack[k].pc = "ret"
         /\ stack[k].why \in {"cancelled before request",
                              "cancelled during request"})
        => (stack[k].ret = FALSE /\ history = stack[k].h0)

\* C5: the input loop is at its prompt only when no task goroutine runs, a
\* task goroutine runs only while processInput waits for it, and "Operation
\* canceled." is printed only after the task goroutine has finished.
C5_OneTaskAtATime ==
    /\ fg = "prompt" => (task # "running" /\ stack = <<>>)
    /\ task = "running" => fg \in {"select", "drain"}
    /\ reported => task = "done"

\* an interrupted task has finished and its cancellation has been reported
C5_Witness ==
    /\ reported
    /\ ctxCancelled
    /\ task = "done"
    /\ fg = "prompt"

\* a step that starts a model request
RequestIssued ==
    /\ stack' # <<>>
    /\ stack'[Len(stack')].pc = "request"
    /\ stack' # stack

\* C6 (as a property of finite runs): once the interrupt has cancelled the
\* task's context, the running task observes it and unwinds, that is, it
\* starts no further model request, also when the interrupt arrived during a
\* busy-wait countdown.
C6_CancelObserved ==
    [][(ctxCancelled /\ task = "running") => ~RequestIssued]_vars

BusyOnly == [NoResponse EXCEPT !.ExecPaneSeemsBusy = TRUE]

\* C7: a turn whose response carries only ExecPaneSeemsBusy makes exactly one
\* recursive call, with the "waited for 5 more seconds" text, and no other.
C7_BusyOneCall ==
    \A k \in DOMAIN stack :
        (stack[k].valid /\ R(stack[k]) = BusyOnly) =>
            /\ stack[k].calls \in {<<>>, <<WaitedText>>}
            /\ stack[k].pc \in {"final", "ret"} => stack[k].calls = <<WaitedText>>

\* C8: a turn with a guardrail-valid response that has RequestAccomplished
\* set, none of whose confirmations was declined, makes no recursive call and
\* returns true with status "".
C8_AccomplishedEnds ==
    \A k \in DOMAIN stack :
        (/\ stack[k].valid
         /\ R(stack[k]).RequestAccomplished
         /\ ~stack[k].declined)
        => /\ stack[k].calls = <<>>
           /\ k = Len(stack)
           /\ stack[k].pc \in {"exec", "keys", "sendkeys", "paste", "final",
                               "ret"}
           /\ stack[k].pc = "ret" => (stack[k].ret = TRUE /\ status = "")

\* a response with a command and RequestAccomplished had its command approved
\* and sent, and the turn returned
C8_Witness ==
    /\ Running
    /\ Top.raw = "execdone"
    /\ Top.pc = "ret"
    /\ Top.ret = TRUE
    /\ Len(Top.sent) = 1
    /\ cfg.ExecConfirm

GuardrailRetries == Cardinality({k \in DOMAIN stack : stack[k].pc = "retryWait"})

\* C9: the guardrail retries of a turn are bounded: the chain of retries ends
\* before it has used up the explored nesting depth.
C9_RetriesBounded == GuardrailRetries < MaxDepth - 1

\* the maximum context size in force: the session's override, else the config
EffectiveMax ==
    IF cfg.SessionOverride.exists THEN cfg.SessionOverride.val
    ELSE cfg.MaxContextSize

MaxTasks == 3

reflectionLogLimit == 500

\* strings.TrimSpace on a command given as its sequence of characters
IsSpace(c) == c \in {" ", "\t", "\n"}

RECURSIVE TrimLeft(_)
TrimLeft(str) ==
    IF str # <<>> /\ IsSpace(Head(str)) THEN TrimLeft(Tail(str)) ELSE str

RECURSIVE TrimRight(_)
TrimRight(str) ==
    IF str # <<>> /\ IsSpace(str[Len(str)])
    THEN TrimRight(SubSeq(str, 1, Len(str) - 1)) ELSE str

TrimSpace(str) == TrimRight(TrimLeft(str))

\* the commands of the finished executions handed to enqueueReflection
Commands == {<<>>, <<" ", "\t">>, <<"l", "s">>, <<" ", "l", "s">>}

\* a CommandExecHistory: n tells apart the executions (their Output and Code)
ExecHistory(command, n) == [Command |-> command, n |-> n]

ReflectionTask(h) == [History |-> h]

\* the CommandReflection runReflection builds for a task
CommandReflection(t) == [Command |-> t.History.Command, n |-> t.History.n]

\* an entry written to the log file by an earlier session
OldReflection(k) == [Command |-> <<"o", "l", "d">>, n |-> k]

\* lessons-learned.json when the manager is constructed: missing, not a JSON
\* array, or an array (whoever wrote it may have left more than the cap)
FileSizes ==
    {0, reflectionLogLimit - 1, reflectionLogLimit, reflectionLogLimit + 2}

LogFiles ==
    {[state |-> "missing", entries |-> <<>>],
     [state |-> "corrupt", entries |-> <<>>]}
    \cup {[state |-> "array", entries |-> [k \in 1..n |-> OldReflection(k)]] :
            n \in FileSizes}

\* mutant: the newest entries are the ones cut off
pruneReflectionLogKeepsOldest(log) ==
    IF Len(log) <= reflectionLogLimit
    THEN [log |-> log, dropped |-> 0]
    ELSE [log |-> SubSeq(log, 1, reflectionLogLimit),
          dropped |-> Len(log) - reflectionLogLimit]

\* m.pruneReflectionLog(): the log it leaves and the count it reports
pruneReflectionLog(log) ==
    IF Len(log) <= reflectionLogLimit
    THEN [log |-> log, dropped |-> 0]
    ELSE [log |-> SubSeq(log, Len(log) - reflectionLogLimit + 1, Len(log)),
          dropped |-> Len(log) - reflectionLogLimit]

\* mutant: blank commands are queued like the others
enqueueReflectionAlways(q, h) == Append(q, ReflectionTask(h))

\* m.enqueueReflection(history)
enqueueReflection(q, h) ==
    IF TrimSpace(h.Command) = <<>> THEN q
    ELSE Append(q, ReflectionTask(h))

otherThanRefl ==
    <<status, watchMode, transcript, cfg, stack, fg, task, ctxCancelled,
      sigPending, reported, guideVars, squashVars, promptVars,
                   manifestVars, pane>>

InitReflect ==
    /\ status = ""
    /\ watchMode = FALSE
    /\ history = <<>>
    /\ transcript = <<>>
    /\ cfg = DefaultCfg
    /\ stack = <<>>
    /\ fg = "prompt"
    /\ task = "idle"
    /\ ctxCancelled = FALSE
    /\ sigPending = FALSE
    /\ reported = FALSE
    /\ GuideIdle
    /\ SquashIdle
    /\ PromptIdle
    /\ ManifestIdle
    /\ PaneIdle
    /\ reflectionLog = <<>>
    /\ pendingReflections = <<>>
    /\ logFile \in LogFiles
    /\ refl = [NoRefl EXCEPT !.pc = "new"]

\* NewManager: manager.loadReflectionLog()
LoadReflectionLog ==
    /\ refl.pc = "new"
    /\ LET loaded == IF logFile.state = "array" THEN logFile.entries ELSE <<>>
           pruned == pruneReflectionLog(reflectionLog \o loaded)
       IN  IF logFile.state = "array" /\ loaded # <<>>
           THEN /\ reflectionLog' = pruned.log
                /\ refl' = [refl EXCEPT !.pc = "idle", !.prev = reflectionLog,
                                        !.added = loaded,
                                        !.dropped = pruned.dropped,
                                        !.last = "load"]
           ELSE /\ reflectionLog' = reflectionLog
                /\ refl' = [refl EXCEPT !.pc = "idle"]
    /\ UNCHANGED <<history, pendingReflections, logFile, otherThanRefl>>

\* m.enqueueReflection(history) for a finished execution
EnqueueReflection ==
    /\ refl.pc = "idle"
    /\ Len(refl.calls) < MaxTasks
    /\ \E command \in Commands :
        LET h == ExecHistory(command, Len(refl.calls) + 1)
        IN  /\ pendingReflections' = enqueueReflection(pendingReflections, h)
            /\ refl' = [refl EXCEPT !.calls = Append(@, h),
                                    !.drained = FALSE]
    /\ UNCHANGED <<history, reflectionLog, logFile, otherThanRefl>>

\* mutant: the drain stops at the first task that failed
DrainPopUnlessFailed ==
    /\ refl.pc \in {"idle", "drain"}
    /\ refl.last # "failed"
    /\ pendingReflections # <<>>
    /\ pendingReflections' = Tail(pendingReflections)
    /\ refl' = [refl EXCEPT !.pc = "run",
                            !.cur = <<Head(pendingReflections)>>,
                            !.processed = Append(@, Head(pendingReflections)),
                            !.drained = FALSE]
    /\ UNCHANGED <<history, reflectionLog, logFile, otherThanRefl>>

\* processPendingReflections lines 585-587: the head of the queue is taken out
DrainPop ==
    /\ refl.pc \in {"idle", "drain"}
    /\ pendingReflections # <<>>
    /\ pendingReflections' = Tail(pendingReflections)
    /\ refl' = [refl EXCEPT !.pc = "run",
                            !.cur = <<Head(pendingReflections)>>,
                            !.processed = Append(@, Head(pendingReflections)),
                            !.drained = FALSE]
    /\ UNCHANGED <<history, reflectionLog, logFile, otherThanRefl>>

ReflectionSummary == "reflection summary"

\* processPendingReflections lines 589-602: runReflection fails and the task
\* is skipped, or its reflection is appended, the log pruned and persisted
\* (the write may fail) and the summary added to history
RunReflection ==
    /\ refl.pc = "run"
    /\ \E outcome \in {"ok", "err"}, wrote \in BOOLEAN :
        IF outcome = "err"
        THEN /\ ~wrote
             /\ refl' = [refl EXCEPT !.pc = "drain", !.cur = <<>>,
                                     !.last = "failed", !.written = FALSE]
             /\ UNCHANGED <<history, reflectionLog, logFile>>
        ELSE LET reflection == CommandReflection(refl.cur[1])
                 pruned == pruneReflectionLog(Append(reflectionLog, reflection))
                 persisted == pruneReflectionLog(pruned.log)
             IN  /\ reflectionLog' = persisted.log
                 /\ logFile' = IF wrote
                               THEN [state |-> "array",
                                     entries |-> persisted.log]
                               ELSE logFile
                 /\ history' = Append(history,
                                      ChatMessage(ReflectionSummary, FALSE))
                 /\ refl' = [refl EXCEPT !.pc = "drain", !.cur = <<>>,
                                         !.prev = reflectionLog,
                                         !.added = <<reflection>>,
                                         !.dropped = pruned.dropped,
                                         !.last = "append",
                                         !.written = wrote]
    /\ UNCHANGED <<pendingReflections, otherThanRefl>>

\* processPendingReflections line 585: the queue is empty, the call returns
DrainReturn ==
    /\ refl.pc \in {"idle", "drain"}
    /\ pendingReflections = <<>>
    /\ refl' = [refl EXCEPT !.pc = "idle", !.drained = TRUE]
    /\ UNCHANGED <<history, reflectionLog, pendingReflections, logFile,
                   otherThanRefl>>

NextReflect ==
    \/ LoadReflectionLog
    \/ EnqueueReflection
    \/ DrainPop
    \/ RunReflection
    \/ DrainReturn

SpecReflect == InitReflect /\ [][NextReflect]_vars

Min(a, b) == IF a <= b THEN a ELSE b

\* C14: the reflection log never holds more than 500 entries after a load,
\* an append or a persist; the file the program writes holds at most 500;
\* a load or append that exceeds the cap evicts exactly the oldest entries,
\* keeps the others in order, and reports the number evicted (1 when an entry
\* is appended to a full log).
C14_LogCapped ==
    /\ Len(reflectionLog) <= reflectionLogLimit
    /\ refl.written =>
        (logFile.state = "array" /\ logFile.entries = reflectionLog)
    /\ refl.last \in {"load", "append"} =>
        LET full == refl.prev \o refl.added
            kept == Min(reflectionLogLimit, Len(full))
        IN  /\ Len(reflectionLog) = kept
            /\ \A i \in 1..kept :
                reflectionLog[i] = full[i + Len(full) - kept]
            /\ refl.dropped = Len(full) - kept
            /\ (refl.last = "append" /\ Len(refl.prev) = reflectionLogLimit)
                    => refl.dropped = 1

\* an entry was appended to a log of 500 entries: one was evicted
C14_Witness ==
    /\ refl.last = "append"
    /\ Len(refl.prev) = reflectionLogLimit
    /\ Len(reflectionLog) = reflectionLogLimit
    /\ refl.dropped = 1
    /\ Len(refl.processed) = 1
    /\ reflectionLog[reflectionLogLimit] = CommandReflection(refl.processed[1])
    /\ reflectionLog[1] = refl.prev[2]

\* a command with at least one character that is not white space
NonBlank(h) == \E i \in DOMAIN h.Command : ~IsSpace(h.Command[i])

\* the executions enqueueReflection was called with for a non-blank command
Accepted == SelectSeq(refl.calls, NonBlank)

\* C15: the reflection queue is FIFO and every task is consumed exactly once:
\* a call with a blank command queues nothing; the tasks handed to
\* runReflection followed by those still queued are the accepted executions in
\* call order (so none is processed twice or put back, failed or not); a task
\* is out of the queue while it is processed; the queue is empty when the
\* drain returns.
C15_QueueFifoOnce ==
    /\ refl.processed \o pendingReflections
            = [i \in DOMAIN Accepted |-> ReflectionTask(Accepted[i])]
    /\ refl.pc = "run" =>
        /\ refl.cur = <<refl.processed[Len(refl.processed)]>>
        /\ \A i \in DOMAIN pendingReflections :
                pendingReflections[i] # refl.cur[1]
    /\ refl.pc # "run" => refl.cur = <<>>
    /\ refl.drained => (pendingReflections = <<>> /\ refl.pc = "idle")

\* three calls, one of them with a blank command; the two queued tasks were
\* processed in order, the last one failed, and the drain returned
C15_Witness ==
    /\ refl.drained
    /\ Len(refl.calls) = 3
    /\ Len(refl.processed) = 2
    /\ refl.processed[1].History.n < refl.processed[2].History.n
    /\ refl.last = "failed"
    /\ Len(reflectionLog) = 1

(***************************************************************************)
(* The confirmation step: confirmedToExecFn, whitelistCheck                *)
(***************************************************************************)
\* longest whitelist_patterns and blacklist_patterns explored
MaxPatterns == 2
\* most prompts shown by one confirmation
MaxPrompts == 2

\* the regular expressions of the explored configurations: "", an expression
\* that does not compile, "^ls" and "rm"
Patterns ==
    {[kind |-> "empty", lit |-> <<>>],
     [kind |-> "invalid", lit |-> <<"[">>],
     [kind |-> "prefix", lit |-> <<"l", "s">>],
     [kind |-> "contains", lit |-> <<"r", "m">>]}

PatternLists == UNION {[1..n -> Patterns] : n \in 0..MaxPatterns}

HasPrefix(str, lit) ==
    Len(str) >= Len(lit) /\ SubSeq(str, 1, Len(lit)) = lit

Contains(str, lit) ==
    \E i \in 0..(Len(str) - Len(lit)) : SubSeq(str, i + 1, i + Len(lit)) = lit

\* regexp.MatchString(pattern, command)
MatchString(pattern, command) ==
    CASE pattern.kind = "invalid" -> [match |-> FALSE, err |-> TRUE]
      [] pattern.kind = "prefix" ->
            [match |-> HasPrefix(command, pattern.lit), err |-> FALSE]
      [] pattern.kind = "contains" ->
            [match |-> Contains(command, pattern.lit), err |-> FALSE]
      [] OTHER -> [match |-> TRUE, err |-> FALSE]

\* one of the two loops of whitelistCheck: how the walk over the patterns
\* ends, "match" at the first matching pattern, "err" at a pattern that does
\* not compile, "none" at the end of the list
RECURSIVE scanPatterns(_, _)
scanPatterns(patterns, command) ==
    IF patterns = <<>> THEN "none"
    ELSE IF Head(patterns).kind = "empty"
    THEN scanPatterns(Tail(patterns), command)
    ELSE IF MatchString(Head(patterns), command).err THEN "err"
    ELSE IF MatchString(Head(patterns), command).match THEN "match"
    ELSE scanPatterns(Tail(patterns), command)

\* mutant: the blacklist is not consulted
whitelistCheckNoBlacklist(wl, bl, command) ==
    LET w == scanPatterns(wl, command)
    IN  IF w = "err" THEN [isSafe |-> FALSE, err |-> TRUE]
        ELSE IF w = "none" THEN [isSafe |-> FALSE, err |-> FALSE]
        ELSE [isSafe |-> TRUE, err |-> FALSE]

\* m.whitelistCheck(command)
whitelistCheck(wl, bl, command) ==
    LET w == scanPatterns(wl, command)
        b == scanPatterns(bl, command)
    IN  IF w = "err" THEN [isSafe |-> FALSE, err |-> TRUE]
        ELSE IF w = "none" THEN [isSafe |-> FALSE, err |-> FALSE]
        ELSE IF b = "err" THEN [isSafe |-> FALSE, err |-> TRUE]
        ELSE IF b = "match" THEN [isSafe |-> FALSE, err |-> FALSE]
        ELSE [isSafe |-> TRUE, err |-> FALSE]

\* the commands put up for confirmation: "ls", "rm", "ls;rm"
ConfCommands ==
    {<<"l", "s">>, <<"r", "m">>, <<"l", "s", ";", "r", "m">>}

\* strings.ToLower on the characters that occur in the explored answers
ToLowerChar(c) ==
    CASE c = "Y" -> "y" [] c = "E" -> "e" [] c = "S" -> "s" [] c = "N" -> "n"
      [] c = "O" -> "o" [] c = "K" -> "k" [] c = "D" -> "d" [] c = "I" -> "i"
      [] c = "T" -> "t" [] OTHER -> c

ToLower(str) == [i \in DOMAIN str |-> ToLowerChar(str[i])]

\* the lines readConfirmationInput may return
AnswerLines ==
    {<<>>, <<" ">>, <<"y">>, <<"Y">>, <<" ", "Y", "e", "s", " ">>,
     <<"O", "K">>, <<"s", "u", "r", "e">>,
     <<"n">>, <<"N", "o", " ">>, <<"c", "a", "n", "c", "e", "l">>,
     <<"e">>, <<"E", "d", "i", "t">>,
     <<"x">>, <<"y", "e">>, <<"y", " ", "e", "s">>}

\* what the temporary file holds when the editor exits
EditedFiles ==
    {<<>>, <<" ", "\n">>, <<"l", "s", " ", "-", "a", "\n">>,
     <<"l", "s", ";", "r", "m">>}

\* confirmedToExecFn lines 47-51: the answer as the switch sees it
confirmInputNoDefault(line) == TrimSpace(ToLower(line))

confirmInputOf(line) ==
    LET trimmed == TrimSpace(ToLower(line))
    IN  IF trimmed = <<>> THEN <<"y">> ELSE trimmed

\* confirmedToExecFn lines 53-127: the case of the switch the answer selects
\* (the edit argument only changes the prompt text, line 29-33)
switchCase(confirmInput, edit) ==
    CASE confirmInput \in {<<"y">>, <<"y", "e", "s">>, <<"o", "k">>,
                           <<"s", "u", "r", "e">>} -> "yes"
      [] confirmInput \in {<<"e">>, <<"e", "d", "i", "t">>} -> "edit"
      [] confirmInput \in {<<"n">>, <<"n", "o">>,
                           <<"c", "a", "n", "c", "e", "l">>} -> "no"
      [] OTHER -> "default"

otherThanPrompt ==
    <<watchMode, history, transcript, cfg, stack, fg, task, ctxCancelled,
      sigPending, reported, guideVars, squashVars, reflVars, manifestVars, pane>>

\* a turn asks for the confirmation of a command; conf is the call
ConfirmationAsked ==
    /\ status = "running"
    /\ watchMode = FALSE
    /\ history = <<>>
    /\ transcript = <<>>
    /\ cfg = DefaultCfg
    /\ stack = <<>>
    /\ fg = "prompt"
    /\ task = "idle"
    /\ ctxCancelled = FALSE
    /\ sigPending = FALSE
    /\ reported = FALSE
    /\ GuideIdle
    /\ SquashIdle
    /\ ReflIdle
    /\ ed = NoEd
    /\ ManifestIdle
    /\ PaneIdle
    /\ conf.pc = "call"

\* the configurations under which the prompt is explored
PromptedWhitelists == {<<>>, <<[kind |-> "prefix", lit |-> <<"l", "s">>]>>}
PromptedBlacklists == {<<>>, <<[kind |-> "contains", lit |-> <<"r", "m">>]>>}

InitConfirm ==
    /\ \E command \in ConfCommands, edit \in BOOLEAN,
          wl \in PromptedWhitelists, bl \in PromptedBlacklists :
        conf = [NoConf EXCEPT !.pc = "call", !.command = command,
                              !.edit = edit, !.wl = wl, !.bl = bl]
    /\ ConfirmationAsked

\* every whitelist and blacklist of up to MaxPatterns patterns
InitWhitelist ==
    /\ \E command \in ConfCommands, edit \in BOOLEAN,
          wl \in PatternLists, bl \in PatternLists :
        conf = [NoConf EXCEPT !.pc = "call", !.command = command,
                              !.edit = edit, !.wl = wl, !.bl = bl]
    /\ ConfirmationAsked

Return(isSafe, command, acted) ==
    [conf EXCEPT !.pc = "ret", !.acted = acted,
                 !.ret = [isSafe |-> isSafe, command |-> command]]

\* confirmedToExecFn lines 20-37: the whitelist check; the prompt is shown
\* unless the command is approved by it
ConfirmCall ==
    /\ conf.pc = "call"
    /\ conf' = IF whitelistCheck(conf.wl, conf.bl, conf.command).isSafe
               THEN Return(TRUE, conf.command, "auto")
               ELSE [conf EXCEPT !.pc = "prompt", !.prompts = @ + 1]
    /\ UNCHANGED <<status, ed, otherThanPrompt>>

\* confirmedToExecFn lines 37-55 and 122-127: readConfirmationInput returns
ConfirmRead(read, line) ==
    /\ conf.pc = "prompt"
    /\ LET c == [conf EXCEPT !.input = line]
           case == switchCase(confirmInputOf(line), conf.edit)
       IN  CASE read = "err" ->
                /\ conf' = [Return(FALSE, <<>>, "read error")
                                EXCEPT !.input = line]
                /\ UNCHANGED status
             [] read = "cancelled" ->
                /\ conf' = [Return(FALSE, <<>>, "cancelled")
                                EXCEPT !.input = line]
                /\ status' = ""
             [] OTHER ->
                /\ UNCHANGED status
                /\ CASE case = "yes" ->
                        conf' = [Return(TRUE, conf.command, "approved")
                                    EXCEPT !.input = line]
                     [] case = "edit" ->
                        conf' = [c EXCEPT !.pc = "editor",
                                          !.acted = "editor",
                                          !.opened = TRUE]
                     [] case = "no" ->
                        conf' = [Return(FALSE, <<>>, "rejected")
                                    EXCEPT !.input = line]
                     [] OTHER ->
                        /\ conf.prompts < MaxPrompts
                        /\ conf' = [c EXCEPT !.pc = "call",
                                             !.acted = "reprompt"]
    /\ UNCHANGED <<ed, otherThanPrompt>>

\* the outcomes of readConfirmationInput, whatever the reader
ConfirmAnswer ==
    \E read \in {"err", "cancelled", "line"}, line \in AnswerLines :
        /\ read # "line" => line = <<>>
        /\ ConfirmRead(read, line)

\* confirmedToExecFn lines 57-121: the external editor
ConfirmEdit ==
    /\ conf.pc = "editor"
    /\ \E outcome \in {"failed", "edited"}, file \in EditedFiles :
        /\ outcome = "failed" => file = <<>>
        /\ LET editedCommand == TrimSpace(file)
           IN  conf' = IF outcome = "edited" /\ editedCommand # <<>>
                       THEN Return(TRUE, editedCommand, "edited")
                       ELSE Return(FALSE, <<>>,
                                   IF outcome = "failed" THEN "editor failed"
                                   ELSE "empty edit")
    /\ UNCHANGED <<status, ed, otherThanPrompt>>

NextConfirm ==
    \/ ConfirmCall
    \/ ConfirmAnswer
    \/ ConfirmEdit

SpecConfirm == InitConfirm /\ [][NextConfirm]_vars

\* the first step of the confirmation under every configuration
NextWhitelist == ConfirmCall

SpecWhitelist == InitWhitelist /\ [][NextWhitelist]_vars

\* the command matches the i-th pattern of the list, a non-empty one
MatchesAt(list, i) ==
    /\ list[i].kind # "empty"
    /\ MatchString(list[i], conf.command).match

\* the i-th pattern of the list is non-empty and does not compile
InvalidAt(list, i) ==
    /\ list[i].kind # "empty"
    /\ MatchString(list[i], conf.command).err

AutoApproved ==
    /\ conf.pc = "ret"
    /\ conf.acted = "auto"
    /\ conf.prompts = 0
    /\ conf.ret = [isSafe |-> TRUE, command |-> conf.command]

\* C16 as stated: the confirmation approves the command without showing the
\* prompt iff the command matches a non-empty whitelist pattern and no
\* non-empty blacklist pattern.
C16_AutoApproveIff ==
    conf.pc # "call" =>
        (AutoApproved <=>
            /\ \E i \in DOMAIN conf.wl : MatchesAt(conf.wl, i)
            /\ \A j \in DOMAIN conf.bl : ~MatchesAt(conf.bl, j))

\* C16 as amended: the confirmation approves the command without showing the
\* prompt iff the command matches a non-empty whitelist pattern that no
\* pattern failing to compile precedes, and every non-empty blacklist pattern
\* compiles and does not match; a command matching a blacklist pattern is
\* never approved without the prompt.
C16_AutoApproveIffCompiled ==
    conf.pc # "call" =>
        /\ AutoApproved <=>
            /\ \E i \in DOMAIN conf.wl :
                /\ MatchesAt(conf.wl, i)
                /\ \A k \in 1..(i - 1) : ~InvalidAt(conf.wl, k)
            /\ \A j \in DOMAIN conf.bl :
                ~MatchesAt(conf.bl, j) /\ ~InvalidAt(conf.bl, j)
        /\ (\E j \in DOMAIN conf.bl : MatchesAt(conf.bl, j)) => ~AutoApproved
        /\ ~AutoApproved => (conf.pc = "prompt" /\ conf.prompts = 1)

\* "ls" was approved without a prompt under a whitelist whose second pattern
\* does not compile and a blacklist of "" and "rm"
C16_Witness ==
    /\ AutoApproved
    /\ conf.command = <<"l", "s">>
    /\ Len(conf.wl) = 2
    /\ InvalidAt(conf.wl, 2)
    /\ Len(conf.bl) = 2
    /\ conf.bl[1].kind = "empty"
    /\ conf.bl[2].kind = "contains"

\* the last thing the confirmation did was to act on a submitted line
Submitted == conf.acted \in {"approved", "rejected", "editor", "reprompt"}

\* the submitted line without surrounding white space, in lower case
Answer == TrimSpace(ToLower(conf.input))

\* C17: a submitted answer is trimmed and compared case-insensitively: empty,
\* y, yes, ok and sure approve with the command unchanged; n, no and cancel
\* reject; e and edit open the editor only if allowEdit is true, and are
\* treated like any unrecognized input otherwise; any other input re-prompts.
C17_AnswerDecides ==
    Submitted =>
        CASE Answer \in {<<>>, <<"y">>, <<"y", "e", "s">>, <<"o", "k">>,
                         <<"s", "u", "r", "e">>} ->
                /\ conf.acted = "approved"
                /\ conf.ret = [isSafe |-> TRUE, command |-> conf.command]
          [] Answer \in {<<"n">>, <<"n", "o">>,
                         <<"c", "a", "n", "c", "e", "l">>} ->
                /\ conf.acted = "rejected"
                /\ ~conf.ret.isSafe
          [] Answer \in {<<"e">>, <<"e", "d", "i", "t">>} /\ conf.edit ->
                /\ conf.acted = "editor"
                /\ conf.opened
          [] OTHER ->
                /\ conf.acted = "reprompt"
                /\ ~conf.opened
                /\ conf.pc \in {"call", "prompt"}

\* C18: when exec confirmation is required and an entry is approved with an
\* edited command, the text sent to the exec pane for it is the edited command
\* and not the model's; an edit that leaves nothing is a rejection: nothing is
\* sent for that entry or any later one, and the turn returns false.
C18_EditedCommandSent ==
    \A k \in DOMAIN stack :
        (ExecTurn(stack[k]) /\ cfg.ExecConfirm) =>
            \A j \in DOMAIN stack[k].answers :
                /\ stack[k].answers[j] = "edit" =>
                    /\ j \in DOMAIN stack[k].sent
                    /\ stack[k].sent[j].cat = "exec"
                    /\ stack[k].sent[j].text = Edited(R(stack[k]).ExecCommand[j])
                    /\ stack[k].sent[j].text # R(stack[k]).ExecCommand[j]
                /\ stack[k].answers[j] = "blank edit" =>
                    /\ j = Len(stack[k].answers)
                    /\ Len(stack[k].sent) = j - 1
                    /\ stack[k].declined
                    /\ stack[k].pc = "ret"
                    /\ stack[k].ret = FALSE

\* the first command was approved as edited and sent so, the edit of the
\* second left nothing
C18_Witness ==
    /\ Running
    /\ cfg.ExecConfirm
    /\ Top.answers = <<"edit", "blank edit">>
    /\ Top.sent = <<[cat |-> "exec", text |-> "c1 edited"]>>
    /\ Top.pc = "ret"

\* ---------------------------------------------------------------------
\* Properties of the turn: effects, history and the end of the turn
\* ---------------------------------------------------------------------

KeysTurn(f) == f.valid /\ Len(R(f).SendKeys) > 0

KeyPrompts == {"Send this key?", "Send all these keys?"}

IsKeyPrompt(m) == m \in KeyPrompts

IsKeysEffect(e) == e.cat = "keys"

KeysAsked(f) == SelectSeq(f.asked, IsKeyPrompt)

KeysSent(f) == SelectSeq(f.sent, IsKeysEffect)

\* the keys of the response as the effects that send them one by one
KeyEffects(f, n) == [j \in 1..n |-> [cat |-> "keys", text |-> R(f).SendKeys[j]]]

\* the turn was ended by the answer to its keys confirmation
KeysRejected(f) ==
    /\ f.declined
    /\ f.asked # <<>>
    /\ f.asked[Len(f.asked)] \in KeyPrompts

\* C21: for a guardrail-valid response with keys, with the keys confirmation
\* required, the confirmation is asked once for the whole batch ("Send this
\* key?" for one key, "Send all these keys?" for several); when approved the
\* keys are sent one by one in list order without Enter; when rejected no key
\* is sent, status is "" and the turn returns false.
C21_KeysConfirmedOnce ==
    \A k \in DOMAIN stack :
        LET f == stack[k]
            keys == R(f).SendKeys
            once == <<IF Len(keys) = 1 THEN "Send this key?"
                      ELSE "Send all these keys?">>
        IN  (cfg.SendKeysConfirm /\ KeysTurn(f)) =>
                CASE f.pc \in {"exec", "keys"} ->
                        KeysAsked(f) = <<>> /\ KeysSent(f) = <<>>
                  [] f.pc = "sendkeys" ->
                        /\ KeysAsked(f) = once
                        /\ KeysSent(f) = KeyEffects(f, f.i - 1)
                  [] f.pc = "ret" /\ f.declined /\ KeysAsked(f) = <<>> ->
                        KeysSent(f) = <<>>
                  [] f.pc = "ret" /\ KeysRejected(f) ->
                        /\ KeysAsked(f) = once
                        /\ KeysSent(f) = <<>>
                        /\ f.ret = FALSE
                        /\ k = Len(stack)
                        /\ status = ""
                  [] OTHER ->
                        /\ KeysAsked(f) = once
                        /\ KeysSent(f) = KeyEffects(f, Len(keys))
                        /\ \A j \in DOMAIN KeysSent(f) :
                              ~AutoEnter(KeysSent(f)[j].cat)

\* both keys of a response were sent after the one confirmation of the batch
C21_Witness ==
    /\ Running
    /\ cfg.SendKeysConfirm
    /\ Top.raw = "keys2"
    /\ Top.asked = <<"Send all these keys?">>
    /\ Top.sent = <<[cat |-> "keys", text |-> "k1"],
                    [cat |-> "keys", text |-> "k2"]>>

\* The sessions of Spec, checked on their own for the properties of one call
\* of ProcessUserMessage (C23 to C30).
SpecTurn == Init /\ [][Next]_vars

\* the turn received a parsable response that violates the guardrails
InvalidTurn(f) == f.raw # "" /\ ~f.valid

\* m.Messages when the model request of the turn was made: the history of
\* the entry, summarized when the entry had to squash it
HistoryAtRequest(f) ==
    IF f.squash = "ok" THEN squashHistory(f.h0, "s1").history ELSE f.h0

\* the pair a turn appends for its response
TurnPair(f) == <<currentMessage(f), responseMsg(f.raw)>>

\* the violation text of the response of turn f
ViolationOf(f) == aiFollowedGuidelines(R(f), watchMode).msg

\* C23: for a response that violates the guardrails no confirmation is asked
\* and nothing is sent to a pane; the turn input and the response are
\* appended to history in that order, exactly one recursive call is made,
\* with the violation text and under the context of the turn, and the turn
\* returns what that call returns.
C23_GuardrailRetry ==
    \A k \in DOMAIN stack :
        InvalidTurn(stack[k]) =>
            /\ stack[k].asked = <<>>
            /\ stack[k].answers = <<>>
            /\ stack[k].sent = <<>>
            /\ stack[k].calls = <<ViolationOf(stack[k])>>
            /\ stack[k].pc \in {"retryWait", "ret"}
            /\ stack[k].pc = "retryWait" =>
                /\ k < Len(stack)
                /\ stack[k + 1].text = ViolationOf(stack[k])
                /\ stack[k + 1].ctx = stack[k].ctx
                /\ stack[k + 1].h0 =
                     HistoryAtRequest(stack[k]) \o TurnPair(stack[k])
            /\ stack[k].pc = "ret" => stack[k].got = <<stack[k].ret>>

\* a turn whose response set two state flags has returned true, as the call
\* it made with the violation text did
C23_Witness ==
    /\ Len(stack) = 1
    /\ Top.raw = "twoflags"
    /\ Top.calls = <<GuidelineBool>>
    /\ Top.pc = "ret"
    /\ Top.ret
    /\ Len(history) >= 2

\* C24: for a guardrail-valid response history grows by exactly the pair
\* (turn input, response), in that order, before any action of the response
\* is performed, unless the response has ExecPaneSeemsBusy or NoComment set:
\* then the response leaves history unchanged.  (Until the turn makes a call
\* nothing else changes history.)
C24_ValidResponseAppended ==
    (Running /\ Top.valid /\ Top.calls = <<>>) =>
        history =
            IF R(Top).ExecPaneSeemsBusy \/ R(Top).NoComment
            THEN HistoryAtRequest(Top)
            ELSE HistoryAtRequest(Top)
                 \o <<[Content |-> Top.text, FromUser |-> TRUE],
                      [Content |-> ResponseText, FromUser |-> FALSE]>>

\* the response with a command was appended after the input, nothing has been
\* asked or sent yet
C24_Witness ==
    /\ Len(stack) = 1
    /\ Top.raw = "exec"
    /\ Top.pc = "exec"
    /\ Top.sent = <<>>
    /\ Top.asked = <<>>
    /\ history = <<ChatMessage(UserInput, TRUE),
                   ChatMessage(ResponseText, FALSE)>>

\* the turn has returned false and has neither parsed a response, nor made a
\* call, nor asked, nor sent anything
ReturnedFalseUntouched(f) ==
    /\ f.pc = "ret"
    /\ f.ret = FALSE
    /\ f.raw = ""
    /\ f.calls = <<>>
    /\ f.asked = <<>>
    /\ f.answers = <<>>
    /\ f.sent = <<>>

\* C25: if status is "" when the model request returns, the turn returns
\* false without parsing the response, without appending to history and
\* without any confirmation or pane effect.
C25_StatusClearedReturns ==
    \A k \in DOMAIN stack :
        /\ stack[k].seen = "" =>
            /\ k = Len(stack)
            /\ ReturnedFalseUntouched(stack[k])
            /\ history = HistoryAtRequest(stack[k])
            /\ status = ""
        /\ (/\ stack[k].raw # ""
            /\ stack[k].calls = <<>>
            /\ ~stack[k].declined
            /\ stack[k].pc # "ret") => status # ""

\* the call made at the end of a turn found the status cleared by a rejected
\* confirmation of an earlier call when its request returned
C25_Witness ==
    /\ Len(stack) = 2
    /\ Top.pc = "ret"
    /\ Top.why = "status cleared"
    /\ Top.text = UpdatedText
    /\ status = ""

\* the request of the top turn failed (err != nil at line 59)
TransportFailure(f) ==
    f.pc = "ret" /\ f.why \in {"transport error", "cancelled during request"}

\* the response of the top turn could not be parsed (err != nil at line 84)
ParseFailure(f) == f.pc = "ret" /\ f.why = "parse error"

\* C26: a transport failure or a parse failure ends the call: it returns
\* false without a further model request, without appending to history and
\* without any pane effect; a parse failure sets status to "", a transport
\* failure leaves status as it was.
C26_FailuresTerminal ==
    \A k \in DOMAIN stack :
        /\ TransportFailure(stack[k]) =>
            /\ k = Len(stack)
            /\ ReturnedFalseUntouched(stack[k])
            /\ history = HistoryAtRequest(stack[k])
            /\ status = stack[k].seen
        /\ ParseFailure(stack[k]) =>
            /\ k = Len(stack)
            /\ ReturnedFalseUntouched(stack[k])
            /\ history = HistoryAtRequest(stack[k])
            /\ status = ""

\* the request of a nested call failed while the session was running
C26_Witness ==
    /\ Len(stack) = 2
    /\ Top.pc = "ret"
    /\ Top.why = "transport error"
    /\ ~Top.ret
    /\ status = "running"
    /\ history # <<>>

\* C27: a turn with a guardrail-valid response that has
\* WaitingForUserResponse set, none of whose confirmations was declined,
\* makes no recursive call and returns false with status "waiting".
C27_WaitingEnds ==
    \A k \in DOMAIN stack :
        (/\ stack[k].valid
         /\ R(stack[k]).WaitingForUserResponse
         /\ ~stack[k].declined)
        => /\ stack[k].calls = <<>>
           /\ k = Len(stack)
           /\ stack[k].pc \in {"exec", "keys", "sendkeys", "paste", "final",
                               "ret"}
           /\ stack[k].pc = "ret" =>
                (stack[k].ret = FALSE /\ status = "waiting")

\* a response with one key and WaitingForUserResponse had its key approved
\* and sent, and the turn has returned
C27_Witness ==
    /\ Running
    /\ Top.raw = "key1waiting"
    /\ cfg.SendKeysConfirm
    /\ Top.asked = <<"Send this key?">>
    /\ Top.sent = <<[cat |-> "keys", text |-> "k1"]>>
    /\ Top.pc = "ret"
    /\ status = "waiting"

\* a guardrail-valid response that does not report a busy pane, none of
\* whose confirmations was declined
ApprovedTurn(f) == f.valid /\ ~R(f).ExecPaneSeemsBusy /\ ~f.declined

\* none of the four flags of the response is set
NoFlag(r) ==
    /\ ~r.RequestAccomplished
    /\ ~r.ExecPaneSeemsBusy
    /\ ~r.WaitingForUserResponse
    /\ ~r.NoComment

\* the turn makes no call and, once returned, has returned false
EndsFalseWithoutCall(f) == f.calls = <<>> /\ (f.pc = "ret" => f.ret = FALSE)

\* outside watch mode a turn without a flag makes one call, with the
\* "sending updated pane(s) content" text and under its own context, and
\* returns what that call returns
OneContinuation ==
    \A k \in DOMAIN stack :
        (ApprovedTurn(stack[k]) /\ NoFlag(R(stack[k])) /\ ~watchMode) =>
            /\ stack[k].calls \in {<<>>, <<UpdatedText>>}
            /\ stack[k].pc \in {"contWait", "ret"} =>
                    stack[k].calls = <<UpdatedText>>
            /\ stack[k].pc = "contWait" =>
                /\ k < Len(stack)
                /\ stack[k + 1].text = UpdatedText
                /\ stack[k + 1].ctx = stack[k].ctx
            /\ stack[k].pc = "ret" => stack[k].got = <<stack[k].ret>>

\* C28 as stated: for a guardrail-valid response without ExecPaneSeemsBusy
\* whose actions were all approved, the turn returns false without recursing
\* if NoComment is set or watch mode is on; if no flag is set and watch mode
\* is off it makes exactly one recursive call, with the "sending updated
\* pane(s) content" text under the same context, and returns true exactly
\* when that call does.
C28_EndOfTurn ==
    /\ \A k \in DOMAIN stack :
            (/\ ApprovedTurn(stack[k])
             /\ (R(stack[k]).NoComment \/ watchMode))
            => EndsFalseWithoutCall(stack[k])
    /\ OneContinuation

\* C28 as amended: the first case holds for the responses that do not have
\* RequestAccomplished set (with RequestAccomplished the turn returns true,
\* also in watch mode and also with NoComment); the second case holds as
\* stated.
C28_EndOfTurnUnlessAccomplished ==
    /\ \A k \in DOMAIN stack :
            (/\ ApprovedTurn(stack[k])
             /\ ~R(stack[k]).RequestAccomplished
             /\ (R(stack[k]).NoComment \/ watchMode))
            => EndsFalseWithoutCall(stack[k])
    /\ OneContinuation

\* outside watch mode the approved command of a response without a flag was
\* followed by one continuation call, which returned true, and so did the
\* turn
C28_Witness ==
    /\ Len(stack) = 1
    /\ ~watchMode
    /\ Top.raw = "exec"
    /\ Top.sent # <<>>
    /\ Top.calls = <<UpdatedText>>
    /\ Top.pc = "ret"
    /\ Top.ret

\* the calls made as busy continuations
BusyContinuations == {k \in 2..Len(stack) : stack[k - 1].pc = "busyWait"}

\* C29: the busy continuation runs under a new background context that is
\* not a child of the turn's context: the cancellation of the turn's context
\* during or after the countdown does not cancel the continuation, whose
\* model request is made and is not ended by that cancellation.
C29_BusyContextFresh ==
    \A k \in BusyContinuations :
        /\ stack[k].text = WaitedText
        /\ ~CtxErr(stack[k].ctx)
        /\ stack[k].why \notin {"cancelled before request",
                                "cancelled during request"}

\* the context of the task is cancelled, and the continuation of its busy
\* turn has received a response and acts on it
C29_Witness ==
    /\ ctxCancelled
    /\ Len(stack) = 2
    /\ stack[1].ctx = "task"
    /\ stack[1].pc = "busyWait"
    /\ Top.valid
    /\ Top.raw = "exec"
    /\ Top.sent # <<>>

\* the paste of the turn has been injected
Pasted(f) == \E j \in DOMAIN f.sent : f.sent[j].cat = "paste"

\* C30: within one turn the effects are applied in the order ExecCommand,
\* SendKeys, PasteMultilineContent, busy wait: for a response with both
\* PasteMultilineContent and ExecPaneSeemsBusy the paste has been confirmed
\* and injected when the busy countdown starts and when the busy
\* continuation call is made.
C30_PasteBeforeBusyWait ==
    \A k \in DOMAIN stack :
        (/\ stack[k].valid
         /\ R(stack[k]).PasteMultilineContent # ""
         /\ R(stack[k]).ExecPaneSeemsBusy
         /\ (stack[k].pc \in {"countdown", "busyWait"}
               \/ stack[k].calls # <<>>))
        => Pasted(stack[k])

\* the session again, for the properties of what processInput and the watch
\* loop leave behind
SpecSession == Init /\ [][Next]_vars

\* the system prompt of the mode (watchPrompt, chatAssistantPrompt): a
\* message that is not from the user
watchPrompt == ChatMessage("watch prompt", FALSE)

chatAssistantPrompt(prepared) ==
    ChatMessage(IF prepared THEN "prepared prompt" ELSE "default prompt",
                FALSE)

\* ProcessUserMessage lines 43-56: the messages of the request of turn f
sending(f) ==
    <<IF watchMode THEN watchPrompt
      ELSE chatAssistantPrompt(cfg.IsPrepared)>>
        \o history \o <<currentMessage(f)>>

\* mutant: every message that is not from the user is given the role system
aiMessagesByAuthor(chatMessages) ==
    [i \in DOMAIN chatMessages |->
        [Role |-> IF chatMessages[i].FromUser THEN "user" ELSE "system",
         Content |-> chatMessages[i].Content]]

\* GetResponseFromChatMessages lines 162-177: the messages sent to the model
aiMessages(chatMessages) ==
    [i \in DOMAIN chatMessages |->
        [Role |-> IF i = 1 /\ ~chatMessages[i].FromUser THEN "system"
                  ELSE IF chatMessages[i].FromUser THEN "user"
                  ELSE "assistant",
         Content |-> chatMessages[i].Content]]

\* the turn on top of the stack is at its model request
AtRequest == Running /\ Top.pc = "request"

\* C35: the model request of a turn is the system prompt of the mode, then
\* the stored history in order, then the turn input as last message; exactly
\* one of its messages has the role system, the first, and the last has the
\* role user, also when history starts with a message that is not from the
\* user.
C35_RequestRoles ==
    AtRequest =>
        LET sent == aiMessages(sending(Top))
            n == Len(sent)
        IN  /\ n = Len(history) + 2
            /\ sent[1].Role = "system"
            /\ sent[1].Content \in {"watch prompt", "prepared prompt",
                                    "default prompt"}
            /\ \A i \in 2..n : sent[i].Role # "system"
            /\ \A i \in DOMAIN history :
                /\ sent[i + 1].Content = history[i].Content
                /\ sent[i + 1].Role =
                     (IF history[i].FromUser THEN "user" ELSE "assistant")
            /\ sent[n].Role = "user"
            /\ sent[n].Content = currentMessage(Top).Content

\* a watch turn is at its request over a history that starts with the
\* summary of a squash
C35_Witness ==
    /\ AtRequest
    /\ watchMode
    /\ history # <<>>
    /\ ~history[1].FromUser
    /\ history[1].Content \in SummaryContents

\* C37: whenever processInput returns after running a task, the status is ""
\* on every path (a turn that ended waiting for the user, with the request
\* accomplished, with an error, with a rejection or with a cancel): it is ""
\* from the exit of the task goroutine on.
C37_StatusClearedAfterTask ==
    task = "done" => (status = "" /\ stack = <<>>)

\* processInput has returned from a task whose turn appended its response
C37_Witness ==
    /\ task = "done"
    /\ fg = "prompt"
    /\ ~ctxCancelled
    /\ Len(history) = 2
    /\ ~history[2].FromUser
    /\ status = ""

\* C38: whenever the watch loop stops and returns to the command prompt,
\* watchMode is false, also when it stops because a confirmation was declined
\* or a response could not be parsed, so that no later ordinary turn is
\* processed with watchMode still true.
C38_WatchModeCleared ==
    /\ (fg = "prompt" /\ status = "") => ~watchMode
    /\ task = "running" => ~watchMode

\* ---------------------------------------------------------------------
\* The raw-mode confirmation line editor (readConfirmationInput and the
\* functions it calls).  Runes and bytes are their code points:
\*   3 Ctrl+C, 4 Ctrl+D, 7 BEL, 8 and 127 Backspace, 10 and 13 Enter, 27 ESC,
\*   51 '3', 65 'A', 66 'B', 67 'C', 68 'D', 70 'F', 72 'H', 79 'O', 91 '[',
\*   97 'a', 98 'b', 120 'x', 126 '~'.
\* ---------------------------------------------------------------------

maxBufferSize == 4096

\* key events read by one prompt
MaxKeys == 2

\* bytes of the longest escape sequence the terminal sends
MaxSeq == 4

\* the runes the main loop is fed
Runes == {13, 10, 3, 4, 127, 8, 27, 98, 7}

\* the bytes that may follow an ESC
EscBytes == {91, 79, 68, 67, 65, 66, 72, 70, 51, 126, 120}

\* how many printable runes have been typed before the keys that are explored
TypedLens == {0, 1, 2, maxBufferSize - 1, maxBufferSize}

\* the buffer after n runes 'a' were typed into the empty editor
Typed(n) == [i \in 1..n |-> 97]

\* unicode.IsPrint on the runes above
IsPrint(r) == r \in 32..126

Quiet(buffer, cursor) == [buffer |-> buffer, cursor |-> cursor, beep |-> FALSE]

beep(buffer, cursor) == [buffer |-> buffer, cursor |-> cursor, beep |-> TRUE]

insertRuneUnbounded(buffer, cursor, r) ==
    [buffer |-> SubSeq(buffer, 1, cursor) \o <<r>>
                  \o SubSeq(buffer, cursor + 1, Len(buffer)),
     cursor |-> cursor + 1,
     beep |-> FALSE]

insertRune(buffer, cursor, r) ==
    IF Len(buffer) >= maxBufferSize
    THEN beep(buffer, cursor)
    ELSE [buffer |-> SubSeq(buffer, 1, cursor) \o <<r>>
                       \o SubSeq(buffer, cursor + 1, Len(buffer)),
          cursor |-> cursor + 1,
          beep |-> FALSE]

\* case 127, 8 of the main loop
Backspace(buffer, cursor) ==
    IF cursor > 0
    THEN [buffer |-> SubSeq(buffer, 1, cursor - 1)
                       \o SubSeq(buffer, cursor + 1, Len(buffer)),
          cursor |-> cursor - 1,
          beep |-> FALSE]
    ELSE beep(buffer, cursor)

Home(buffer, cursor) ==
    IF cursor # 0 THEN Quiet(buffer, 0) ELSE beep(buffer, cursor)

End(buffer, cursor) ==
    IF cursor # Len(buffer)
    THEN Quiet(buffer, Len(buffer))
    ELSE beep(buffer, cursor)

handleEscapeSequence(seq, buffer, cursor) ==
    IF Len(seq) < 2 THEN Quiet(buffer, cursor)
    ELSE CASE seq[2] = 91 ->
                IF Len(seq) < 3 THEN Quiet(buffer, cursor)
                ELSE CASE seq[3] = 68 ->
                            IF cursor > 0
                            THEN Quiet(buffer, cursor - 1)
                            ELSE beep(buffer, cursor)
                       [] seq[3] = 67 ->
                            IF cursor < Len(buffer)
                            THEN Quiet(buffer, cursor + 1)
                            ELSE beep(buffer, cursor)
                       [] seq[3] \in {65, 66} -> beep(buffer, cursor)
                       [] seq[3] = 72 -> Home(buffer, cursor)
                       [] seq[3] = 70 -> End(buffer, cursor)
                       [] seq[3] = 51 ->
                            IF Len(seq) >= 4 /\ seq[4] = 126
                            THEN IF cursor < Len(buffer)
                                 THEN Quiet(SubSeq(buffer, 1, cursor)
                                              \o SubSeq(buffer, cursor + 2,
                                                        Len(buffer)),
                                            cursor)
                                 ELSE beep(buffer, cursor)
                            ELSE Quiet(buffer, cursor)
                       [] OTHER -> Quiet(buffer, cursor)
           [] seq[2] = 79 ->
                IF Len(seq) < 3 THEN Quiet(buffer, cursor)
                ELSE CASE seq[3] = 72 -> Home(buffer, cursor)
                       [] seq[3] = 70 -> End(buffer, cursor)
                       [] OTHER -> beep(buffer, cursor)
           [] OTHER -> beep(buffer, cursor)

\* where the byte after the ones read so far is when readNext is called:
\* already in the reader's buffer, arriving on the descriptor within the
\* timeout, not arriving within the timeout, the end of the input, or a
\* byte whose read fails
Arrivals == {"buffered", "intime", "absent", "eof", "broken"}

\* what unix.Poll can answer in each case; "none" is no poll
PollOutcomes(src) ==
    CASE src = "buffered" -> {"none"}
      [] src = "intime" -> {"ready", "eintr", "err"}
      [] src = "absent" -> {"timeout", "eintr", "err"}
      [] src = "eof" -> {"ready", "hup", "eintr", "err"}
      [] src = "broken" -> {"ready"}

Polls == {"none", "ready", "timeout", "hup", "eintr", "err"}

waitForInput(poll) ==
    CASE poll = "eintr" -> [ready |-> FALSE, err |-> FALSE]
      [] poll = "err" -> [ready |-> FALSE, err |-> TRUE]
      [] poll = "timeout" -> [ready |-> FALSE, err |-> FALSE]
      [] poll = "hup" -> [ready |-> FALSE, err |-> FALSE]
      [] OTHER -> [ready |-> TRUE, err |-> FALSE]

readNext(seq, src, poll, b) ==
    IF src # "buffered" /\ waitForInput(poll).err
    THEN [ok |-> FALSE, err |-> TRUE, seq |-> seq]
    ELSE IF src # "buffered" /\ ~waitForInput(poll).ready
    THEN [ok |-> FALSE, err |-> FALSE, seq |-> seq]
    ELSE IF src = "eof"
    THEN [ok |-> FALSE, err |-> FALSE, seq |-> seq]
    ELSE IF src = "broken"
    THEN [ok |-> FALSE, err |-> TRUE, seq |-> seq]
    ELSE [ok |-> TRUE, err |-> FALSE, seq |-> Append(seq, b)]

\* the loop of readEscapeSequence goes on to another readNext
needMore(seq) ==
    /\ Len(seq) >= 2
    /\ seq[2] \in {91, 79}
    /\ ~(seq[2] = 91 /\ Len(seq) >= 3 /\ seq[Len(seq)] \in 64..126)
    /\ ~(seq[2] = 79 /\ Len(seq) >= 3)

otherThanEd ==
    <<status, watchMode, history, transcript, cfg, stack, fg, task,
      ctxCancelled, sigPending, reported, guideVars, squashVars, reflVars,
      conf, manifestVars, pane>>

\* the terminal is in raw mode, the prompt is printed, and n runes have been
\* typed
InitEditor ==
    /\ status = "running"
    /\ watchMode = FALSE
    /\ history = <<>>
    /\ transcript = <<>>
    /\ cfg = DefaultCfg
    /\ stack = <<>>
    /\ fg = "prompt"
    /\ task = "idle"
    /\ ctxCancelled = FALSE
    /\ sigPending = FALSE
    /\ reported = FALSE
    /\ GuideIdle
    /\ SquashIdle
    /\ ReflIdle
    /\ conf = NoConf
    /\ ManifestIdle
    /\ PaneIdle
    /\ \E n \in TypedLens :
        ed = [NoEd EXCEPT !.pc = "read", !.buffer = Typed(n), !.cursor = n,
                          !.prevBuffer = Typed(n), !.prevCursor = n]

Line(line) == [line |-> line, cancelled |-> FALSE, err |-> FALSE]

CancelledAsLine == [line |-> <<>>, cancelled |-> FALSE, err |-> FALSE]

Cancelled == [line |-> <<>>, cancelled |-> TRUE, err |-> FALSE]

Failed == [line |-> <<>>, cancelled |-> FALSE, err |-> TRUE]

\* one iteration of the main loop up to its next read
ReadRune ==
    /\ ed.pc = "read"
    /\ ed.keys < MaxKeys
    /\ \E rd \in {"rune", "eof", "err"}, r \in Runes :
        LET e0 == [ed EXCEPT !.keys = @ + 1,
                             !.key = IF rd = "rune" THEN r ELSE 0,
                             !.prevBuffer = ed.buffer,
                             !.prevCursor = ed.cursor,
                             !.seq = <<>>, !.arrivals = <<>>,
                             !.polls = <<>>, !.beeped = FALSE]
            Edit(h) == [e0 EXCEPT !.buffer = h.buffer, !.cursor = h.cursor,
                                  !.beeped = h.beep]
        IN  ed' = CASE rd = "eof" ->
                         [e0 EXCEPT !.pc = "done", !.ret = Line(ed.buffer)]
                    [] rd = "err" ->
                         [e0 EXCEPT !.pc = "done", !.ret = Failed]
                    [] rd = "rune" /\ r \in {13, 10} ->
                         [e0 EXCEPT !.pc = "done", !.ret = Line(ed.buffer)]
                    [] rd = "rune" /\ r = 3 ->
                         [e0 EXCEPT !.pc = "done", !.ret = Cancelled]
                    [] rd = "rune" /\ r = 4 ->
                         IF Len(ed.buffer) = 0
                         THEN [e0 EXCEPT !.pc = "done", !.ret = Cancelled]
                         ELSE Edit(beep(ed.buffer, ed.cursor))
                    [] rd = "rune" /\ r \in {127, 8} ->
                         Edit(Backspace(ed.buffer, ed.cursor))
                    [] rd = "rune" /\ r = 27 ->
                         [e0 EXCEPT !.pc = "esc", !.seq = <<27>>]
                    [] OTHER ->
                         IF IsPrint(r)
                         THEN Edit(insertRune(ed.buffer, ed.cursor, r))
                         ELSE Edit(beep(ed.buffer, ed.cursor))
    /\ UNCHANGED otherThanEd

\* one readNext of readEscapeSequence; when the sequence is returned, what
\* the main loop does with it
ReadNext ==
    /\ ed.pc = "esc"
    /\ \E src \in Arrivals, poll \in Polls, b \in EscBytes :
        /\ poll \in PollOutcomes(src)
        /\ Len(ed.seq) + 1 >= MaxSeq => ~needMore(Append(ed.seq, b))
        /\ LET r == readNext(ed.seq, src, poll, b)
               e0 == [ed EXCEPT !.arrivals = Append(@, src),
                                !.polls = Append(@, poll),
                                !.seq = r.seq]
               h == handleEscapeSequence(r.seq, ed.buffer, ed.cursor)
           IN  ed' = IF r.err
                     THEN [e0 EXCEPT !.pc = "done", !.ret = Failed]
                     ELSE IF r.ok /\ needMore(r.seq)
                     THEN e0
                     ELSE IF Len(r.seq) = 1
                     THEN [e0 EXCEPT !.pc = "done", !.ret = Cancelled]
                     ELSE [e0 EXCEPT !.pc = "read", !.buffer = h.buffer,
                                     !.cursor = h.cursor, !.beeped = h.beep]
    /\ UNCHANGED otherThanEd

NextEditor ==
    \/ ReadRune
    \/ ReadNext

SpecEditor == InitEditor /\ [][NextEditor]_vars

\* the last key event was an escape sequence that readEscapeSequence
\* returned without an error
EscapeRead ==
    /\ ed.key = 27
    /\ ed.pc \in {"read", "done"}
    /\ ~ed.ret.err

\* the byte for the i-th readNext was there within the timeout
InTime(i) == ed.arrivals[i] \in {"buffered", "intime"}

\* C19: readEscapeSequence returns the length-1 sequence [27] exactly when
\* no further byte arrives within the timeout or the input ends; only a
\* length-1 sequence is a cancellation; the bytes 27 '[' 'D' move the cursor
\* left when cursor > 0 and never cancel.
C19_EscapeDisambiguation ==
    EscapeRead =>
        /\ (Len(ed.seq) = 1) <=> ~InTime(1)
        /\ ed.ret.cancelled <=> (Len(ed.seq) = 1)
        /\ ed.seq = <<27, 91, 68>> =>
            /\ ~ed.ret.cancelled
            /\ ed.buffer = ed.prevBuffer
            /\ ed.cursor =
                 IF ed.prevCursor > 0 THEN ed.prevCursor - 1 ELSE 0

\* the last key event has been handled
KeyHandled == ed.keys > 0 /\ ed.pc \in {"read", "done"}

Unchanged ==
    /\ ed.beeped
    /\ ed.buffer = ed.prevBuffer
    /\ ed.cursor = ed.prevCursor

\* C20: after any sequence of key events 0 <= cursor <= len(buffer) and
\* len(buffer) <= 4096; Left at position 0, Right at the end of the buffer,
\* Backspace at position 0 and Delete-forward at the end of the buffer each
\* beep and leave buffer and cursor unchanged.
C20_EditorBounds ==
    /\ 0 <= ed.cursor
    /\ ed.cursor <= Len(ed.buffer)
    /\ Len(ed.buffer) <= maxBufferSize
    /\ KeyHandled =>
        /\ (ed.seq = <<27, 91, 68>> /\ ed.prevCursor = 0) => Unchanged
        /\ (ed.seq = <<27, 91, 67>> /\ ed.prevCursor = Len(ed.prevBuffer))
              => Unchanged
        /\ (ed.key \in {127, 8} /\ ed.prevCursor = 0) => Unchanged
        /\ (ed.seq = <<27, 91, 51, 126>>
              /\ ed.prevCursor = Len(ed.prevBuffer)) => Unchanged

\* a rune typed into the full buffer was refused, then Right at its end beeped
C20_Witness ==
    /\ ed.keys = 2
    /\ ed.pc = "read"
    /\ Len(ed.buffer) = maxBufferSize
    /\ ed.cursor = maxBufferSize
    /\ ed.seq = <<27, 91, 67>>
    /\ ed.beeped

\* the sequences of Left, Right, Home, End and Delete-forward
EditingKeys ==
    {<<27, 91, 68>>, <<27, 91, 67>>, <<27, 91, 72>>, <<27, 91, 70>>,
     <<27, 79, 72>>, <<27, 79, 70>>, <<27, 91, 51, 126>>}

\* C32: every multi-byte escape sequence that is not Left, Right, Home, End
\* or Delete-forward (Up, Down, any unrecognized sequence, an unrecognized
\* CSI such as ESC [ and another final byte) beeps and leaves the buffer and
\* the cursor unchanged.
C32_UnrecognizedBeeps ==
    (EscapeRead /\ Len(ed.seq) >= 2 /\ ed.seq \notin EditingKeys) => Unchanged

\* ---------------------------------------------------------------------
\* The confirmation prompt with its reader: confirmedToExecFn calls
\* readConfirmationInput and acts on what it returns.

\* what was typed before the explored keys: nothing, y, n or x
PromptTyped == {<<>>, <<121>>, <<110>>, <<120>>}

\* what a reader that is not a terminal delivers up to the newline or the
\* end of the input (10 is the newline, 13 the carriage return)
PipedLines ==
    {<<>>, <<10>>, <<13, 10>>, <<121, 10>>, <<121>>, <<110, 13, 10>>,
     <<120, 10>>}

\* string(buffer) on the runes above
RuneChar(r) ==
    CASE r = 97 -> "a" [] r = 98 -> "b" [] r = 110 -> "n" [] r = 120 -> "x"
      [] r = 121 -> "y" [] OTHER -> "?"

StringOf(buffer) == [i \in DOMAIN buffer |-> RuneChar(buffer[i])]

\* strings.TrimRight(line, "\r\n")
RECURSIVE TrimRightNewlines(_)
TrimRightNewlines(line) ==
    IF line # <<>> /\ line[Len(line)] \in {13, 10}
    THEN TrimRightNewlines(SubSeq(line, 1, Len(line) - 1)) ELSE line

\* the prompt is shown (the whitelist did not approve the command) and the
\* reader starts: the raw-mode editor on a terminal, a line reader otherwise
InitPrompt ==
    /\ status = "running"
    /\ watchMode = FALSE
    /\ history = <<>>
    /\ transcript = <<>>
    /\ cfg = DefaultCfg
    /\ stack = <<>>
    /\ fg = "prompt"
    /\ task = "idle"
    /\ ctxCancelled = FALSE
    /\ sigPending = FALSE
    /\ reported = FALSE
    /\ GuideIdle
    /\ SquashIdle
    /\ ReflIdle
    /\ ManifestIdle
    /\ PaneIdle
    /\ \E command \in ConfCommands, edit \in BOOLEAN :
        conf = [NoConf EXCEPT !.pc = "prompt", !.command = command,
                              !.edit = edit, !.prompts = 1]
    /\ \/ \E typed \in PromptTyped :
            ed = [NoEd EXCEPT !.pc = "read", !.buffer = typed,
                              !.cursor = Len(typed), !.prevBuffer = typed,
                              !.prevCursor = Len(typed)]
       \/ ed = [NoEd EXCEPT !.pc = "pipe"]

\* readConfirmationInput lines 169-177: standard input is not a terminal
ReadLine ==
    /\ ed.pc = "pipe"
    /\ \E rd \in {"line", "eof", "err"}, line \in PipedLines :
        /\ rd = "line" => line # <<>> /\ line[Len(line)] = 10
        /\ rd = "eof" => \A i \in DOMAIN line : line[i] # 10
        /\ rd = "err" => line = <<>>
        /\ ed' = [ed EXCEPT !.pc = "done", !.buffer = line,
                            !.ret = IF rd = "err" THEN Failed
                                    ELSE Line(TrimRightNewlines(line))]
    /\ UNCHANGED otherThanEd

\* confirmedToExecFn line 37: readConfirmationInput has returned
PromptAnswer ==
    /\ ed.pc = "done"
    /\ ConfirmRead(IF ed.ret.err THEN "err"
                   ELSE IF ed.ret.cancelled THEN "cancelled" ELSE "line",
                   StringOf(ed.ret.line))

NextPrompt ==
    \/ ReadRune
    \/ ReadNext
    \/ ReadLine
    \/ PromptAnswer

SpecPrompt == InitPrompt /\ [][NextPrompt]_vars

\* the confirmation has acted on what the reader returned
Answered == ed.pc = "done" /\ conf.pc # "prompt"

\* the raw-mode editor ended on Ctrl+C, or on Ctrl+D with an empty buffer
CancelKey ==
    /\ ed.pc = "done"
    /\ \/ ed.key = 3
       \/ ed.key = 4 /\ ed.prevBuffer = <<>>

\* C31: in the raw-mode prompt Ctrl+C with any buffer and Ctrl+D on an empty
\* buffer end the prompt as a cancellation, on which the confirmation returns
\* not-approved and sets the status to ""; Ctrl+D on a non-empty buffer only
\* beeps and leaves the buffer and the cursor unchanged.
C31_CancelKeys ==
    /\ (KeyHandled /\ ed.key = 3) => CancelKey
    /\ (KeyHandled /\ ed.key = 4 /\ ed.prevBuffer = <<>>) => CancelKey
    /\ CancelKey => ed.ret.cancelled /\ ~ed.ret.err
    /\ (CancelKey /\ Answered) =>
            /\ conf.pc = "ret"
            /\ ~conf.ret.isSafe
            /\ status = ""
    /\ (KeyHandled /\ ed.key = 4 /\ ed.prevBuffer # <<>>) =>
            /\ ed.pc = "read"
            /\ Unchanged

\* the second key on the typed y was Ctrl+C, and the confirmation was cancelled
C31_Witness ==
    /\ CancelKey
    /\ Answered
    /\ ed.keys = 2
    /\ ed.key = 3
    /\ ed.beeped = FALSE
    /\ ed.prevBuffer = <<121>>
    /\ status = ""
    /\ ~conf.ret.isSafe

\* the reader met the end of the input: the raw-mode ReadRune, or the line
\* reader on a line without a newline
EndOfInput ==
    /\ ed.pc = "done"
    /\ ed.key = 0
    /\ ~ed.ret.err
    /\ \/ ed.keys > 0
       \/ ed.keys = 0 /\ \A i \in DOMAIN ed.buffer : ed.buffer[i] # 10

\* C40: the end of the input at the confirmation prompt is a submitted line
\* and not a cancellation, with both readers: the line is what was typed, and
\* with nothing typed it is normalized to y, so the command is approved and
\* the status is not cleared.
C40_EndOfInputSubmits ==
    EndOfInput =>
        /\ ~ed.ret.cancelled
        /\ ed.ret.line = ed.buffer
        /\ (Answered /\ ed.buffer = <<>>) =>
                /\ conf.acted = "approved"
                /\ conf.ret = [isSafe |-> TRUE, command |-> conf.command]
                /\ status = "running"

\* rm was approved at the end of the input of a reader that is no terminal
C40_Witness ==
    /\ EndOfInput
    /\ Answered
    /\ ed.keys = 0
    /\ ed.buffer = <<>>
    /\ conf.command = <<"r", "m">>
    /\ conf.ret.isSafe
    /\ status = "running"

\* the same with the raw-mode editor, after a backspace emptied the buffer
C40_RawWitness ==
    /\ EndOfInput
    /\ Answered
    /\ ed.keys = 2
    /\ ed.buffer = <<>>
    /\ conf.ret.isSafe

\* ---------------------------------------------------------------------
\* The tools manifest (tools_manifest.go).  Strings are sequences of
\* characters ("bq" is the backquote and "ndash" the en dash U+2013; the
\* comments write them as ' and --),
\* the file content is one string, and the indices of lines are the indices
\* of the Go slices (from 0).
\* ---------------------------------------------------------------------

\* AddToolToManifest calls made on one manifest
MaxCalls == 2

toolBulletPrefix == <<"-", " ", "bq">>

sectionHeaderPrefix == <<"#", "#", " ">>

NoDescription ==
    <<"(", "n", "o", " ", "d", "e", "s", "c", "r", "i", "p", "t", "i", "o",
      "n", ")">>

\* strings.Index(str, c) for a one-character c: -1 when c is not in str
Index(str, c) ==
    IF \E i \in DOMAIN str : str[i] = c
    THEN (CHOOSE i \in DOMAIN str :
            str[i] = c /\ \A j \in 1..(i - 1) : str[j] # c) - 1
    ELSE -1

\* strings.Split(content, "\n")
RECURSIVE Split(_)
Split(content) ==
    LET idx == Index(content, "\n")
    IN  IF idx = -1 THEN <<content>>
        ELSE <<SubSeq(content, 1, idx)>>
               \o Split(SubSeq(content, idx + 2, Len(content)))

\* strings.Join(lines, "\n")
RECURSIVE Join(_)
Join(lines) ==
    IF lines = <<>> THEN <<>>
    ELSE IF Len(lines) = 1 THEN lines[1]
    ELSE lines[1] \o <<"\n">> \o Join(Tail(lines))

splitLines(content) == IF content = <<>> THEN << <<>> >> ELSE Split(content)

\* strings.EqualFold on the letters of the explored names
EqualFold(a, b) == ToLower(a) = ToLower(b)

\* strings.TrimLeft(str, " \t")
RECURSIVE TrimLeftBlanks(_)
TrimLeftBlanks(str) ==
    IF str # <<>> /\ Head(str) \in {" ", "\t"}
    THEN TrimLeftBlanks(Tail(str)) ELSE str

extractToolName(line) ==
    LET t == TrimSpace(line)
    IN  IF ~HasPrefix(t, toolBulletPrefix) THEN <<>>
        ELSE LET rest == SubSeq(t, Len(toolBulletPrefix) + 1, Len(t))
                 idx == Index(rest, "bq")
             IN  IF idx = -1 THEN TrimSpace(rest)
                 ELSE TrimSpace(SubSeq(rest, 1, idx))

formatToolLine(name, description) ==
    <<"-", " ", "bq">> \o name \o <<"bq", " ", "ndash", " ">>
        \o (IF description = <<>> THEN NoDescription ELSE description)

\* the line of Go index i
LineAt(lines, i) == lines[i + 1]

findSectionBounds(lines, header) ==
    LET n == Len(lines)
        heads == {i \in 0..(n - 1) : TrimSpace(LineAt(lines, i)) = header}
    IN  IF heads = {} THEN [start |-> -1, end |-> n]
        ELSE LET start == CHOOSE i \in heads : \A j \in heads : i <= j
                 next == {j \in (start + 1)..(n - 1) :
                            HasPrefix(TrimSpace(LineAt(lines, j)),
                                      sectionHeaderPrefix)}
             IN  [start |-> start,
                  end |-> IF next = {} THEN n
                          ELSE CHOOSE j \in next : \A k \in next : j <= k]

appendSection(lines, header) ==
    (IF TrimSpace(Join(lines)) # <<>> THEN Append(lines, <<>>) ELSE lines)
        \o <<header, <<>>>>

insertLine(lines, index, value) ==
    LET at == IF index < 0 THEN 0 ELSE index
    IN  IF at >= Len(lines) THEN Append(lines, value)
        ELSE SubSeq(lines, 1, at) \o <<value>>
               \o SubSeq(lines, at + 1, Len(lines))

replaceWithIndent(original, replacement) ==
    LET leading == Len(original) - Len(TrimLeftBlanks(original))
    IN  IF leading <= 0 THEN replacement
        ELSE [i \in 1..leading |-> " "] \o replacement

\* the content writeManifest writes
writeManifest(lines) ==
    LET content == Join(lines)
    IN  IF content # <<>> /\ content[Len(content)] = "\n" THEN content
        ELSE content \o <<"\n">>

\* the tool entries of the section: the Go indices of its bullet lines whose
\* name is the given one but for case
EntriesOf(lines, b, name) ==
    {i \in (b.start + 1)..(b.end - 1) :
        /\ HasPrefix(TrimSpace(LineAt(lines, i)), toolBulletPrefix)
        /\ EqualFold(extractToolName(TrimSpace(LineAt(lines, i))), name)}

Change(section, name, description, action, modified, err, file) ==
    [section |-> section, name |-> name, description |-> description,
     Action |-> action, modified |-> modified, err |-> err, file |-> file]

\* AddToolToManifest on the file; writable says whether os.WriteFile succeeds
\* (when it does not, the file is left as it was)
AddToolToManifest(file, section0, name0, description0, writable) ==
    LET section == TrimSpace(section0)
        name == TrimSpace(name0)
        description == TrimSpace(description0)
        Result(action, modified, lines) ==
            Change(section, name, description, action, modified, ~writable,
                   IF writable
                   THEN [exists |-> TRUE, content |-> writeManifest(lines)]
                   ELSE file)
    IN  IF section = <<>> \/ name = <<>> \/ ~file.exists
        THEN Change(<<>>, <<>>, <<>>, "", FALSE, TRUE, file)
        ELSE LET lines0 == splitLines(file.content)
                 header == sectionHeaderPrefix \o section
                 toolLine == formatToolLine(name, description)
                 b0 == findSectionBounds(lines0, header)
                 lines == IF b0.start = -1 THEN appendSection(lines0, header)
                          ELSE lines0
                 b == findSectionBounds(lines, header)
                 found == EntriesOf(lines, b, name)
             IN  IF found # {}
                 THEN LET i == CHOOSE x \in found : \A y \in found : x <= y
                      IN  IF TrimSpace(LineAt(lines, i)) = toolLine
                          THEN Change(section, name, description, "unchanged",
                                      FALSE, FALSE, file)
                          ELSE Result("updated", TRUE,
                                 [lines EXCEPT ![i + 1] =
                                    replaceWithIndent(LineAt(lines, i),
                                                      toolLine)])
                 ELSE LET blank == /\ b.end > b.start + 1
                                   /\ TrimSpace(LineAt(lines, b.end - 1)) # <<>>
                          spaced == IF blank
                                    THEN insertLine(lines, b.end, <<>>)
                                    ELSE lines
                          insertIndex == IF blank THEN b.end + 1 ELSE b.end
                      IN  Result("added", TRUE,
                                 insertLine(spaced, insertIndex, toolLine))

\* the arguments the calls are made with
MfSections == {<<"S">>, <<>>}

MfNames == {<<"t">>, <<"T">>, <<" ", "k">>, <<"bq", "t", "bq">>}

MfDescriptions == {<<>>, <<"d">>, <<"e", "\n", "d">>}

\* "## S\n\n- 't' -- d\n"
OneTool ==
    <<"#", "#", " ", "S", "\n", "\n", "-", " ", "bq", "t", "bq", " ", "ndash", " ",
      "d", "\n">>

\* "## S\n  - 'K' -- e\n## T\n"
IndentedTool ==
    <<"#", "#", " ", "S", "\n", " ", " ", "-", " ", "bq", "K", "bq", " ", "ndash",
      " ", "e", "\n", "#", "#", " ", "T", "\n">>

\* the manifests the calls start from: no file, an empty file, and the two
\* above
Manifests ==
    {NoFile,
     [exists |-> TRUE, content |-> <<>>],
     [exists |-> TRUE, content |-> OneTool],
     [exists |-> TRUE, content |-> IndentedTool]}

otherThanManifest ==
    <<status, watchMode, history, transcript, cfg, stack, fg, task,
      ctxCancelled, sigPending, reported, guideVars, squashVars, reflVars,
      promptVars, pane>>

InitManifest ==
    /\ SessionIdle
    /\ watchMode = FALSE
    /\ GuideIdle
    /\ SquashIdle
    /\ ReflIdle
    /\ PromptIdle
    /\ manifest \in Manifests
    /\ mf = NoMf
    /\ PaneIdle

\* one call of AddToolToManifest (tools add, or an add/update action of a
\* reflection)
AddTool ==
    /\ mf.calls < MaxCalls
    /\ \E section \in MfSections, name \in MfNames,
          description \in MfDescriptions, writable \in BOOLEAN :
        LET c == AddToolToManifest(manifest, section, name, description,
                                   writable)
        IN  /\ manifest' = c.file
            /\ mf' = [calls |-> mf.calls + 1,
                      prev |-> mf.last,
                      last |-> [section |-> TrimSpace(section),
                                name |-> TrimSpace(name),
                                description |-> TrimSpace(description),
                                Action |-> c.Action,
                                modified |-> c.modified,
                                err |-> c.err,
                                before |-> manifest]]
    /\ UNCHANGED otherThanManifest

NextManifest == AddTool

SpecManifest == InitManifest /\ [][NextManifest]_vars

\* the last two calls both succeeded and the second followed the first
TwoCalls ==
    /\ mf.calls >= 2
    /\ ~mf.prev.err
    /\ ~mf.last.err
    /\ mf.last.section = mf.prev.section

\* the bullet lines of a file
BulletCount(file) ==
    LET lines == splitLines(file.content)
    IN  Cardinality({i \in DOMAIN lines :
                        HasPrefix(TrimSpace(lines[i]), toolBulletPrefix)})

\* C22: AddToolToManifest is an idempotent add-or-update keyed by the tool
\* name without case within a section: repeating a successful call with the
\* same section, name and description reports "unchanged" and leaves the
\* content identical, and a call whose name differs only in case from an
\* entry of the section updates that entry and adds no second one.
C22_AddToolIdempotent ==
    TwoCalls =>
        /\ (mf.last.name = mf.prev.name
              /\ mf.last.description = mf.prev.description) =>
                /\ mf.last.Action = "unchanged"
                /\ ~mf.last.modified
                /\ manifest = mf.last.before
        /\ (mf.last.name # mf.prev.name
              /\ EqualFold(mf.last.name, mf.prev.name)) =>
                /\ mf.last.Action \in {"updated", "unchanged"}
                /\ BulletCount(manifest) = BulletCount(mf.last.before)

\* ---------------------------------------------------------------------
\* The tool actions of a reflection: runReflection, applyToolActions and
\* RemoveToolFromManifest, and the drain that applies them.

\* most suggested tool actions of the reflections of one session
MaxTools == 2

\* the loop of collapseExtraBlankLines from Go index i on
RECURSIVE collapseFrom(_, _, _)
collapseFrom(lines, i, prevBlank) ==
    IF i >= Len(lines) THEN lines
    ELSE IF TrimSpace(LineAt(lines, i)) = <<>>
    THEN IF prevBlank
         THEN collapseFrom(SubSeq(lines, 1, i) \o SubSeq(lines, i + 2, Len(lines)),
                           i, TRUE)
         ELSE collapseFrom(lines, i + 1, TRUE)
    ELSE IF HasPrefix(TrimSpace(LineAt(lines, i)), sectionHeaderPrefix)
    THEN lines
    ELSE collapseFrom(lines, i + 1, FALSE)

collapseExtraBlankLines(lines, sectionStart) ==
    IF sectionStart < 0 THEN lines
    ELSE collapseFrom(lines, sectionStart + 1, FALSE)

\* RemoveToolFromManifest on the file; writable says whether os.WriteFile
\* succeeds (when it does not, the file is left as it was)
RemoveToolFromManifest(file, section0, name0, writable) ==
    LET section == TrimSpace(section0)
        name == TrimSpace(name0)
    IN  IF section = <<>> \/ name = <<>> \/ ~file.exists
        THEN Change(<<>>, <<>>, <<>>, "", FALSE, TRUE, file)
        ELSE LET lines == splitLines(file.content)
                 header == sectionHeaderPrefix \o section
                 b == findSectionBounds(lines, header)
                 found == IF b.start = -1 THEN {}
                          ELSE EntriesOf(lines, b, name)
             IN  IF found = {}
                 THEN Change(<<>>, <<>>, <<>>, "", FALSE, FALSE, file)
                 ELSE LET i == CHOOSE x \in found : \A y \in found : x <= y
                          cut == SubSeq(lines, 1, i)
                                   \o SubSeq(lines, i + 2, Len(lines))
                          left == collapseExtraBlankLines(cut, b.start)
                      IN  Change(section, name, <<>>, "removed", TRUE,
                                 ~writable,
                                 IF writable
                                 THEN [exists |-> TRUE,
                                       content |-> writeManifest(left)]
                                 ELSE file)

\* the path GetToolsManifestPath returns: config.Load leaves no empty path
\* and an empty session override is ignored
ToolsManifestPath == "tools-available.md"

\* a tool of the parsed reflection response
Tool(action, section, name, description) ==
    [Action |-> action, Section |-> section, Name |-> name,
     Description |-> description]

\* the tools the model suggests in the explored reflections
Tools ==
    {Tool(<<"a", "d", "d">>, <<"S">>, <<"t">>, <<"d">>),
     Tool(<<" ", "a", "D", "D">>, <<" ">>, <<"t">>, <<>>),
     Tool(<<"u", "p", "D", "a", "T", "E">>, <<"S">>, <<"T">>, <<"e">>),
     Tool(<<"r", "e", "m", "o", "v", "e">>, <<" ", "S">>, <<"t">>, <<>>),
     Tool(<<"r", "E", "m", "O", "v", "E">>, <<>>, <<"t">>, <<>>),
     Tool(<<"r", "e", "m", "o", "v", "e">>, <<"S">>, <<>>, <<>>),
     Tool(<<"s", "k", "i", "p">>, <<"S">>, <<"t">>, <<"d">>),
     Tool(<<>>, <<>>, <<"t">>, <<>>)}

ToolLists == UNION {[1..n -> Tools] : n \in 0..MaxTools}

\* runReflection lines 717-726: the SuggestedToolAction built for each tool
SuggestedActions(tools) ==
    [i \in DOMAIN tools |->
        [Action |-> ToLower(TrimSpace(tools[i].Action)),
         Name |-> TrimSpace(tools[i].Name),
         Section |-> TrimSpace(tools[i].Section),
         Description |-> TrimSpace(tools[i].Description),
         Outcome |-> ""]]

\* applyToolActions lines 747-756: the outcome of an add or update ("error"
\* stands for the text made of the error)
addOutcome(c) ==
    [Outcome |-> IF c.err THEN "error"
                 ELSE IF c.modified THEN c.Action ELSE "unchanged",
     file |-> c.file]

\* applyToolActions lines 763-772: the outcome of a remove
removeOutcome(c) ==
    [Outcome |-> IF c.err THEN "error"
                 ELSE IF c.modified THEN "removed" ELSE "not-found",
     file |-> c.file]

\* mutant: an action without a section is tried on the manifest
switchActionWithoutSectionCheck(a, file, writable) ==
    LET action == ToLower(a.Action)
    IN  CASE action \in {<<"a", "d", "d">>, <<"u", "p", "d", "a", "t", "e">>} ->
                addOutcome(AddToolToManifest(file, a.Section, a.Name,
                                             a.Description, writable))
          [] action = <<"r", "e", "m", "o", "v", "e">> ->
                removeOutcome(RemoveToolFromManifest(file, a.Section, a.Name,
                                                     writable))
          [] OTHER -> [Outcome |-> "skipped: no-op", file |-> file]

\* applyToolActions lines 741-775: the switch on one action
switchAction(a, file, writable) ==
    LET action == ToLower(a.Action)
    IN  CASE action \in {<<"a", "d", "d">>, <<"u", "p", "d", "a", "t", "e">>} ->
                IF a.Section = <<>>
                THEN [Outcome |-> "skipped: section required", file |-> file]
                ELSE addOutcome(AddToolToManifest(file, a.Section, a.Name,
                                                  a.Description, writable))
          [] action = <<"r", "e", "m", "o", "v", "e">> ->
                IF a.Section = <<>>
                THEN [Outcome |-> "skipped: section required", file |-> file]
                ELSE removeOutcome(RemoveToolFromManifest(file, a.Section,
                                                          a.Name, writable))
          [] OTHER -> [Outcome |-> "skipped: no-op", file |-> file]

\* the action with its outcome, before the actions that follow it
withOutcome(a, outcome, rest) ==
    [actions |-> <<[a EXCEPT !.Outcome = outcome]>> \o rest.actions,
     file |-> rest.file]

\* applyToolActions: the actions with their outcomes, and the manifest left
RECURSIVE applyToolActions(_, _, _, _)

\* the loop of applyToolActions after the switch on its first action
applyRest(actions, path, writable, r) ==
    withOutcome(Head(actions), r.Outcome,
                applyToolActions(Tail(actions), path, r.file, writable))

applyToolActions(actions, path, file, writable) ==
    IF path = ""
    THEN [actions |->
            [i \in DOMAIN actions |->
                [actions[i] EXCEPT
                    !.Outcome = "skipped: manifest path not configured"]],
          file |-> file]
    ELSE IF actions = <<>> THEN [actions |-> <<>>, file |-> file]
    ELSE applyRest(actions, path, writable,
                   switchAction(Head(actions), file, writable))

\* what a reflection task found when it was taken from the queue
Before ==
    [reflectionLog |-> reflectionLog, logFile |-> logFile,
     manifest |-> manifest, history |-> history,
     pendingReflections |-> pendingReflections]

\* the pipeline with two tasks queued; tools are the tools of the last
\* response, used the tool actions suggested so far
NoApply ==
    [pc |-> "idle", cur |-> <<>>, calls |-> <<>>, processed |-> <<>>,
     prev |-> <<>>, dropped |-> 0, last |-> "none", written |-> FALSE,
     drained |-> FALSE, added |-> <<>>, tools |-> <<>>, used |-> 0,
     before |-> [reflectionLog |-> <<>>, logFile |-> <<>>,
                 manifest |-> NoFile, history |-> <<>>,
                 pendingReflections |-> <<>>]]

QueuedTasks ==
    <<ReflectionTask(ExecHistory(<<"l", "s">>, 1)),
      ReflectionTask(ExecHistory(<<"r", "m">>, 2))>>

otherThanApply ==
    <<status, watchMode, transcript, cfg, stack, fg, task, ctxCancelled,
      sigPending, reported, guideVars, squashVars, promptVars, mf, pane>>

InitApply ==
    /\ status = "running"
    /\ watchMode = FALSE
    /\ history = <<>>
    /\ transcript = <<>>
    /\ cfg = DefaultCfg
    /\ stack = <<>>
    /\ fg = "prompt"
    /\ task = "idle"
    /\ ctxCancelled = FALSE
    /\ sigPending = FALSE
    /\ reported = FALSE
    /\ GuideIdle
    /\ SquashIdle
    /\ PromptIdle
    /\ mf = NoMf
    /\ PaneIdle
    /\ manifest \in Manifests
    /\ reflectionLog = <<>>
    /\ pendingReflections = QueuedTasks
    /\ logFile = [state |-> "missing", entries |-> <<>>]
    /\ refl = NoApply

\* processPendingReflections lines 595-602: the reflection with the applied
\* actions is appended, the log pruned and persisted (the write may fail)
\* and the summary added to history
appendReflection(applied, tools, wrote) ==
    LET reflection ==
            [Command |-> refl.cur[1].History.Command,
             n |-> refl.cur[1].History.n,
             SuggestedActions |-> applied.actions]
        pruned == pruneReflectionLog(Append(reflectionLog, reflection))
        persisted == pruneReflectionLog(pruned.log)
    IN  /\ manifest' = applied.file
        /\ reflectionLog' = persisted.log
        /\ logFile' = IF wrote
                      THEN [state |-> "array", entries |-> persisted.log]
                      ELSE logFile
        /\ history' = Append(history, ChatMessage(ReflectionSummary, FALSE))
        /\ refl' = [refl EXCEPT !.pc = "drain", !.cur = <<>>,
                                !.prev = reflectionLog,
                                !.added = <<reflection>>,
                                !.dropped = pruned.dropped,
                                !.last = "append",
                                !.written = wrote,
                                !.tools = tools,
                                !.used = @ + Len(tools),
                                !.before = Before]

\* processPendingReflections lines 589-602 for the task taken from the
\* queue: runReflection fails at the model call or at the parse and the task
\* is skipped, or the tool actions are applied to the manifest, the
\* reflection is appended, the log pruned and persisted (the write may
\* fail) and the summary added to history
ApplyReflection ==
    /\ refl.pc = "run"
    /\ \E outcome \in {"ok", "call error", "parse error"},
          tools \in ToolLists, wrote \in BOOLEAN, writable \in BOOLEAN :
        /\ outcome # "ok" => (tools = <<>> /\ ~wrote /\ writable)
        /\ Len(tools) <= MaxTools - refl.used
        /\ IF outcome # "ok"
           THEN /\ refl' = [refl EXCEPT !.pc = "drain", !.cur = <<>>,
                                        !.last = "failed",
                                        !.written = FALSE,
                                        !.tools = <<>>,
                                        !.before = Before]
                /\ UNCHANGED <<history, reflectionLog, logFile, manifest>>
           ELSE appendReflection(
                    applyToolActions(SuggestedActions(tools),
                                     ToolsManifestPath, manifest, writable),
                    tools, wrote)
    /\ UNCHANGED <<pendingReflections, otherThanApply>>

NextApply ==
    \/ DrainPop
    \/ ApplyReflection
    \/ DrainReturn

SpecApply == InitApply /\ [][NextApply]_vars

\* the task taken last failed and the drain is back at the head of its loop
TaskSkipped == refl.pc = "drain" /\ refl.last = "failed"

\* C33: a reflection task whose model call or JSON parse fails changes
\* nothing: no entry is added to the reflection log, nothing is persisted,
\* the manifest is not edited, no message is appended to history, the task is
\* not queued again, and the drain goes on to the next pending task.
C33_FailedReflectionSkipped ==
    TaskSkipped =>
        /\ reflectionLog = refl.before.reflectionLog
        /\ logFile = refl.before.logFile
        /\ manifest = refl.before.manifest
        /\ history = refl.before.history
        /\ pendingReflections = refl.before.pendingReflections
        /\ pendingReflections # <<>> => ENABLED DrainPop

\* the first task failed and the second one was taken and reflected
C33_Witness ==
    /\ refl.last = "append"
    /\ Len(refl.processed) = 2
    /\ Len(reflectionLog) = 1
    /\ reflectionLog[1].Command = <<"r", "m">>
    /\ Len(history) = 1

\* the reflection of the task taken last has been appended
Reflected == refl.pc = "drain" /\ refl.last = "append"

ManifestActions ==
    {<<"a", "d", "d">>, <<"u", "p", "d", "a", "t", "e">>,
     <<"r", "e", "m", "o", "v", "e">>}

\* C34: every suggested tool action has a non-empty outcome when its
\* reflection is appended to the log, and the actions keep their count and
\* order; add, update or remove with an empty section gets "skipped: section
\* required" and makes no manifest change, and an action that is not add,
\* update or remove gets "skipped: no-op".
C34_ToolOutcomes ==
    /\ \A k \in DOMAIN reflectionLog :
        \A i \in DOMAIN reflectionLog[k].SuggestedActions :
            reflectionLog[k].SuggestedActions[i].Outcome # ""
    /\ Reflected =>
        LET acts == reflectionLog[Len(reflectionLog)].SuggestedActions
            suggested == SuggestedActions(refl.tools)
            skipped == {"skipped: section required", "skipped: no-op"}
        IN  /\ Len(acts) = Len(refl.tools)
            /\ \A i \in DOMAIN acts :
                /\ [acts[i] EXCEPT !.Outcome = ""] = suggested[i]
                /\ (acts[i].Action \in ManifestActions
                      /\ acts[i].Section = <<>>)
                    => acts[i].Outcome = "skipped: section required"
                /\ acts[i].Action \notin ManifestActions
                    => acts[i].Outcome = "skipped: no-op"
            /\ (\A i \in DOMAIN acts : acts[i].Outcome \in skipped)
                => manifest = refl.before.manifest

\* a reflection suggested an add that was made and an add without a section
C34_Witness ==
    /\ Reflected
    /\ Len(refl.tools) = 2
    /\ reflectionLog[Len(reflectionLog)].SuggestedActions[1].Outcome = "added"
    /\ reflectionLog[Len(reflectionLog)].SuggestedActions[2].Outcome
         = "skipped: section required"
    /\ manifest # refl.before.manifest

\* ---------------------------------------------------------------------
\* Sending text to a pane (tmux_send.go).  A command is its string of
\* characters ("\\" is one backslash); a run is one tmux send-keys process
\* with the arguments that follow the pane id.

\* most lines of a command sent
MaxLines == 2

\* strings.Split(str, c) for a one-character c
RECURSIVE SplitBy(_, _)
SplitBy(str, c) ==
    LET idx == Index(str, c)
    IN  IF idx = -1 THEN <<str>>
        ELSE <<SubSeq(str, 1, idx)>>
                \o SplitBy(SubSeq(str, idx + 2, Len(str)), c)

HasSuffix(str, lit) ==
    Len(str) >= Len(lit)
        /\ SubSeq(str, Len(str) - Len(lit) + 1, Len(str)) = lit

\* getSpecialKeys: the key names and F1 to F12
getSpecialKeys ==
    {<<"U", "p">>, <<"D", "o", "w", "n">>, <<"L", "e", "f", "t">>,
     <<"R", "i", "g", "h", "t">>, <<"B", "S", "p", "a", "c", "e">>,
     <<"B", "T", "a", "b">>, <<"D", "C">>, <<"E", "n", "d">>,
     <<"E", "n", "t", "e", "r">>, <<"E", "s", "c", "a", "p", "e">>,
     <<"H", "o", "m", "e">>, <<"I", "C">>, <<"N", "P", "a", "g", "e">>,
     <<"P", "a", "g", "e", "D", "o", "w", "n">>, <<"P", "g", "D", "n">>,
     <<"P", "P", "a", "g", "e">>, <<"P", "a", "g", "e", "U", "p">>,
     <<"P", "g", "U", "p">>, <<"S", "p", "a", "c", "e">>, <<"T", "a", "b">>}
    \cup {<<"F", d>> : d \in {"1", "2", "3", "4", "5", "6", "7", "8", "9"}}
    \cup {<<"F", "1", d>> : d \in {"0", "1", "2"}}

containsSpecialKey(line) ==
    \/ Contains(line, <<"C", "-">>)
    \/ Contains(line, <<"M", "-">>)
    \/ \E key \in getSpecialKeys : Contains(line, key)

\* the loop of processLineWithSpecialKeys over the parts left
RECURSIVE processParts(_, _, _)
processParts(parts, result, currentText) ==
    IF parts = <<>>
    THEN IF currentText # <<>> THEN Append(result, currentText) ELSE result
    ELSE LET part == Head(parts)
         IN  IF part = <<>>
             THEN processParts(Tail(parts), result,
                               IF currentText # <<>>
                               THEN currentText \o <<" ">> ELSE currentText)
             ELSE IF \/ HasPrefix(part, <<"C", "-">>)
                     \/ HasPrefix(part, <<"M", "-">>)
                     \/ part \in getSpecialKeys
             THEN processParts(Tail(parts),
                               (IF currentText # <<>>
                                THEN Append(result, currentText) ELSE result)
                                  \o <<part>>,
                               <<>>)
             ELSE processParts(Tail(parts), result,
                               (IF currentText # <<>>
                                THEN currentText \o <<" ">> ELSE <<>>)
                                  \o part)

processLineWithSpecialKeys(line) == processParts(SplitBy(line, " "), <<>>, <<>>)

\* TmuxSendCommandToPane lines 16-43: the arguments of the send-keys run
\* made for a non-empty line
sendKeysArgs(line) ==
    IF ~containsSpecialKey(line)
    THEN <<<<"-", "l">>,
           IF HasSuffix(line, <<";">>)
           THEN SubSeq(line, 1, Len(line) - 1) \o <<"\\", ";">>
           ELSE line>>
    ELSE processLineWithSpecialKeys(line)

\* the lines of the explored commands
SendLines ==
    {<<>>, <<"l", "s">>, <<"l", "s", ";">>, <<";">>, <<"C", "-", "c">>,
     <<"C", "-", "c", " ", "l", "s", ";">>, <<"U", "p", ";">>,
     <<"a", " ", " ", "E", "n", "t", "e", "r">>, <<"l", "s", " ", ";">>}

SendCommands ==
    {Join(lines) : lines \in UNION {[1..n -> SendLines] : n \in 0..MaxLines}}

otherThanPane ==
    <<status, watchMode, history, transcript, cfg, stack, fg, task,
      ctxCancelled, sigPending, reported, guideVars, squashVars, reflVars,
      promptVars, manifestVars>>

\* TmuxSendCommandToPane is called
InitSend ==
    /\ SessionIdle
    /\ watchMode = FALSE
    /\ GuideIdle
    /\ SquashIdle
    /\ ReflIdle
    /\ PromptIdle
    /\ ManifestIdle
    /\ \E command \in SendCommands, autoenter \in BOOLEAN :
        pane = [NoSend EXCEPT !.pc = "loop", !.command = command,
                              !.autoenter = autoenter]

\* one iteration of the loop over the lines: the run for the line and the
\* run for Enter, either of which may fail and end the call
SendLine ==
    /\ pane.pc = "loop"
    /\ \E failed \in {"none", "line", "enter"} :
        LET lines == Split(pane.command)
            i == pane.i
            line == LineAt(lines, i)
            enter == /\ pane.autoenter
                     /\ (i < Len(lines) - 1
                            \/ (i = Len(lines) - 1 /\ line # <<>>))
            lineRun == IF line # <<>>
                       THEN <<[line |-> line, args |-> sendKeysArgs(line)]>>
                       ELSE <<>>
            enterRun == IF enter
                        THEN <<[line |-> <<>>,
                                args |-> <<<<"E", "n", "t", "e", "r">>>>]>>
                        ELSE <<>>
        IN  /\ failed = "line" => line # <<>>
            /\ failed = "enter" => enter
            /\ pane' =
                 CASE failed = "line" ->
                        [pane EXCEPT !.pc = "ret", !.err = TRUE,
                                     !.runs = @ \o lineRun]
                   [] failed = "enter" ->
                        [pane EXCEPT !.pc = "ret", !.err = TRUE,
                                     !.runs = @ \o lineRun \o enterRun]
                   [] OTHER ->
                        [pane EXCEPT !.pc = IF i = Len(lines) - 1
                                            THEN "ret" ELSE "loop",
                                     !.i = i + 1,
                                     !.runs = @ \o lineRun \o enterRun]
    /\ UNCHANGED otherThanPane

NextSend == SendLine

SpecSend == InitSend /\ [][NextSend]_vars

\* the last argument of the run ends in an escaped semicolon
Escaped(run) ==
    LET arg == run.args[Len(run.args)]
    IN  HasSuffix(arg, <<"\\", ";">>)

\* C36: for every non-empty line that ends in a literal semicolon the
\* trailing semicolon is escaped in what is handed to tmux, whether the line
\* is sent as literal text or as key tokens.
C36_TrailingSemicolonEscaped ==
    \A k \in DOMAIN pane.runs :
        HasSuffix(pane.runs[k].line, <<";">>) => Escaped(pane.runs[k])

====
